---------------------------- MODULE Spec2Model ----------------------------
(***************************************************************************)
(* A model of the statter crate of BFC-Multitool: fixtures, the resolution *)
(* of one tournament (group stage, winners bracket, losers bracket, grand  *)
(* final, final ordering), the season rankings and the batch driver.       *)
(*                                                                         *)
(* Option<u8> values are integers with None == -1, so that the order of    *)
(* the integers is Rust's order on Option (None < Some(_)).  Teams are the *)
(* numbers 1..MaxTeams, NoTeam (0) is Option::<TeamName>::None.            *)
(***************************************************************************)
EXTENDS Integers, Sequences, FiniteSets, TLC

\* ------------------------------------------------------------------ bounds
\* Highest number of goals one side scores in a fixture.
MaxScore == 1
\* Highest number of penalty goals of one side.
MaxPen == 1
\* Number of team names the definitions draw from.
MaxTeams == 4
\* Highest head-to-head decider value, and the longest head_to_head list.
MaxDecider == 1
MaxDeciders == 2
\* Number of group identifiers the definitions draw from.
MaxGroups == 2
\* Highest number of group fixtures of a definition.
MaxGroupFixtures == 2
\* Number of tournament files of a batch, and the names, seasons, dates and
\* teams their results draw from.
MaxCups == 2
MaxNames == 2
MaxSeasons == 2
MaxDate == 2
MaxBatchTeams == 2
\* Number of per-tournament records of one team that are merged.
MaxRecords == 3
\* Highest number of penalty goals of one side in the fixtures of one team
\* whose greatest win and loss are followed.
MaxShootout == 2

None == -1
NoTeam == 0

Teams == 1..MaxTeams
Scores == 0..MaxScore
Pens == {None} \cup (0..MaxPen)

VARIABLES
    fx,         \* SpecFixture: the fixture under test
    fxWinner,   \* SpecFixture: what winner() returned ("unset" before the call)
    fxLoser,    \* SpecFixture: what loser() returned
    team_records, \* SpecTeam: the per-tournament Team records of one team, as drawn
    pending,    \* SpecTeam: the records not merged into another one yet
    lifetime,   \* SpecTeam: the team's entry of teams_total_stats (<<>> before)
    tourn,      \* the Tournament definition's scalar fields and list lengths
    winners,    \* brackets.winners, as far as the run has read it
    losers,     \* brackets.losers, as far as the run has read it
    gfs,        \* grand_final, as far as the run has read it
    groups,     \* brackets.groups, as far as the run has read it
    head_to_head, \* the head_to_head list, once the run has read it
    team_scores,  \* GroupStage::run's team_scores: team -> GroupTeam
    groups_seen,  \* GroupStage::run's groups_seen
    cur,        \* the fixture read last (<<>> before the first)
    pc,         \* where Tournament::run is
    err,        \* the error Tournament::run returned
    placements, \* TournamentPlacements: team -> TeamPlacement
    stage,      \* the locals of the bracket loop running
    qualifying, \* PlayoffStage.qualifying_teams: the GroupTeams that qualified
    result,     \* the Vec<TeamPlacement> Tournament::run returned
    bpc,        \* where run_tournaments is
    cup_paths,  \* the number of tournament files get_cup_paths found
    cups_read,  \* how many of them the loop of run_tournaments has resolved
    all_tournament_results, \* run_tournaments' all_tournament_results
    teams_total_stats,      \* run_tournaments' teams_total_stats
    files,      \* the files written to the output folder
    seasons,    \* the Seasons that Seasons::from is building
    pushed      \* how many results Seasons::from has pushed

teamVars == <<team_records, pending, lifetime>>
fxVars == <<fx, fxWinner, fxLoser, teamVars>>
groupVars == <<groups, head_to_head, team_scores, groups_seen>>
runVars == <<tourn, winners, losers, gfs, groups, head_to_head, team_scores, groups_seen,
            cur, pc, err, placements, stage, qualifying, result>>
batchVars == <<bpc, cup_paths, cups_read, all_tournament_results, teams_total_stats,
              files, seasons, pushed>>
vars == <<fxVars, runVars, batchVars>>

\* ----------------------------------------------------------------- Fixture
Ok(t) == [ok |-> TRUE, team |-> t, err |-> "none"]
Err(e) == [ok |-> FALSE, team |-> NoTeam, err |-> e]
Unset == [ok |-> FALSE, team |-> NoTeam, err |-> "unset"]

Fixture(t1, t2, s1, s2, p1, p2, g) ==
    [team1 |-> t1, team2 |-> t2, score1 |-> s1, score2 |-> s2,
     pen1 |-> p1, pen2 |-> p2, group |-> g]

\* Fixture::winner deciding by the scores when a penalty field is missing
\* and calling equal penalties a draw.
winnerLenient(f) ==
    IF f.pen1 # None /\ f.pen2 # None /\ f.pen1 # f.pen2
    THEN (IF f.pen1 > f.pen2 THEN Ok(f.team1) ELSE Ok(f.team2))
    ELSE IF f.pen1 # None /\ f.pen2 # None THEN Ok(NoTeam)
    ELSE IF f.score1 > f.score2 THEN Ok(f.team1)
    ELSE IF f.score2 > f.score1 THEN Ok(f.team2)
    ELSE Ok(NoTeam)

\* Fixture::winner, fixture.rs:28-72
winner(f) ==
    IF f.pen1 = None /\ f.pen2 # None THEN Err("MissingPenalties1")
    ELSE IF f.pen1 # None /\ f.pen2 = None THEN Err("MissingPenalties2")
    ELSE IF f.pen1 # None /\ f.pen2 # None /\ f.pen1 = f.pen2 THEN Err("InvalidPenalties")
    ELSE IF f.pen1 = None
         THEN IF f.score1 > f.score2 THEN Ok(f.team1)
              ELSE IF f.score2 > f.score1 THEN Ok(f.team2)
              ELSE Ok(NoTeam)
         ELSE IF f.pen1 > f.pen2 THEN Ok(f.team1) ELSE Ok(f.team2)

\* Fixture::loser, fixture.rs:20-26
loser(f) ==
    LET w == winner(f) IN
    IF w.ok /\ w.team # NoTeam /\ w.team = f.team1 THEN Ok(f.team2)
    ELSE IF w.ok /\ w.team # NoTeam /\ w.team = f.team2 THEN Ok(f.team1)
    ELSE w

\* ---------------------------------------------------- Team, MatchupHistory
\* MatchupHistory::from, team.rs:22-44
MatchupHistory(opp, ga, gf, pp, pga, pgf, w, d, l) ==
    [opponent_name |-> opp, goals_against |-> ga, goals_for |-> gf,
     penalties_played |-> pp, penalties_goals_against |-> pga,
     penalties_goals_for |-> pgf, wins |-> w, draws |-> d, losses |-> l]

\* MatchupHistory::add, team.rs:46-62 (the caller found `a` by opponent name)
MatchupAdd(a, b) ==
    [a EXCEPT !.goals_against = @ + b.goals_against,
              !.goals_for = @ + b.goals_for,
              !.penalties_played = @ + b.penalties_played,
              !.penalties_goals_against = @ + b.penalties_goals_against,
              !.penalties_goals_for = @ + b.penalties_goals_for,
              !.wins = @ + b.wins,
              !.draws = @ + b.draws,
              !.losses = @ + b.losses]

\* TeamPlacement::from(None, Team::from(name)), team.rs:85-102, 297-300.
\* An Option<GreatestFixture> is a sequence of length 0 or 1; matchups
\* (Option<Vec<..>>) is the vector, None being the empty one.
NewTeamPlacement(name) ==
    [name |-> name, placement |-> None,
     goals_against |-> 0, goals_for |-> 0,
     penalties_played |-> 0, penalties_goals_against |-> 0, penalties_goals_for |-> 0,
     wins |-> 0, draws |-> 0, losses |-> 0,
     greatest_win |-> <<>>, greatest_loss |-> <<>>,
     matchups |-> <<>>, head_to_head |-> None]

AbsDiff(a, b) == IF a >= b THEN a - b ELSE b - a

\* The comparison of Team::try_add_greatest, team.rs:194-226: does the
\* candidate g replace the current greatest fixture?
IsGreatest(greatest, g) ==
    LET greatest_score_diff == AbsDiff(greatest.score1, greatest.score2)
        fixture_score_diff == AbsDiff(g.score1, g.score2)
        greatest_total_goals == greatest.score1 + greatest.score2
        fixture_total_goals == g.score1 + g.score2
    IN  IF fixture_score_diff > greatest_score_diff
           \/ (fixture_score_diff = greatest_score_diff
               /\ fixture_total_goals > greatest_total_goals)
        THEN TRUE
        ELSE IF greatest.pen1 # None /\ greatest.pen2 # None /\ g.pen1 # None /\ g.pen2 # None
        THEN LET greatest_pen_diff == AbsDiff(greatest.pen1, greatest.pen2)
                 fixture_pen_diff == AbsDiff(g.pen1, g.pen2)
                 greatest_pen_total == greatest.pen1 + greatest.pen2
                 fixture_pen_total == g.pen1 + g.pen2
             IN  fixture_pen_diff > greatest_pen_diff
                 \/ (fixture_pen_diff = greatest_pen_diff
                     /\ fixture_pen_total > greatest_pen_total)
        ELSE FALSE

\* Team::try_add_greatest, team.rs:164-236.  Returns the team after the
\* call and whether winner() failed (the `?` at line 170).
try_add_greatest(team, g, win) ==
    LET w == winner(g)
        greatest == IF win THEN team.greatest_win ELSE team.greatest_loss
        set == IF win THEN [team EXCEPT !.greatest_win = <<g>>]
                      ELSE [team EXCEPT !.greatest_loss = <<g>>]
    IN  IF g.team1 # team.name /\ g.team2 # team.name
        THEN [ok |-> TRUE, team |-> team]
        ELSE IF ~w.ok THEN [ok |-> FALSE, team |-> team]
        ELSE IF w.team # NoTeam
                /\ ((win /\ w.team # team.name) \/ (~win /\ w.team = team.name))
        THEN [ok |-> TRUE, team |-> team]
        ELSE IF greatest = <<>> THEN [ok |-> TRUE, team |-> set]
        ELSE IF IsGreatest(greatest[1], g) THEN [ok |-> TRUE, team |-> set]
        ELSE [ok |-> TRUE, team |-> team]

\* Every matchup pushed as a new record.
AddMatchupPushed(matchups, m) == Append(matchups, m)

\* The add-or-insert of a matchup, tournament.rs:862-875 and team.rs:127-137
AddMatchup(matchups, m) ==
    IF \E i \in 1..Len(matchups) : matchups[i].opponent_name = m.opponent_name
    THEN LET i == CHOOSE j \in 1..Len(matchups) :
                    /\ matchups[j].opponent_name = m.opponent_name
                    /\ \A k \in 1..(j - 1) : matchups[k].opponent_name # m.opponent_name
         IN  [matchups EXCEPT ![i] = MatchupAdd(@, m)]
    ELSE Append(matchups, m)

\* ----------------------------------------------------- TournamentPlacements
\* A failed Result<()>: the placements are dropped with the stage.  names
\* are the teams the error message names.
Failed(pl, e, names) == [ok |-> FALSE, pl |-> pl, err |-> e, names |-> names]
Done(pl) == [ok |-> TRUE, pl |-> pl, err |-> "none", names |-> {}]

\* TournamentPlacements::set_placement, tournament.rs:762-765
set_placement(pl, team, placement) ==
    IF team \in DOMAIN pl
    THEN [pl EXCEPT ![team].placement = placement]
    ELSE pl

\* TournamentPlacements::update_team, tournament.rs:778-878
update_team(pl, f, is_team1, is_groups) ==
    LET team_name == IF is_team1 THEN f.team1 ELSE f.team2
        opponent_name == IF is_team1 THEN f.team2 ELSE f.team1
        goals_for == IF is_team1 THEN f.score1 ELSE f.score2
        goals_against == IF is_team1 THEN f.score2 ELSE f.score1
        pen_goals_for == IF is_team1 THEN f.pen1 ELSE f.pen2
        pen_goals_against == IF is_team1 THEN f.pen2 ELSE f.pen1
        entry == IF team_name \in DOMAIN pl THEN pl[team_name]
                 ELSE NewTeamPlacement(team_name)
        has_pens == pen_goals_for # None /\ pen_goals_against # None
        penalties_played == IF has_pens THEN 1 ELSE 0
        penalties_goals_against == IF has_pens THEN pen_goals_against ELSE 0
        penalties_goals_for == IF has_pens THEN pen_goals_for ELSE 0
        e1 == [entry EXCEPT !.goals_for = @ + goals_for,
                            !.goals_against = @ + goals_against,
                            !.penalties_goals_for = @ + penalties_goals_for,
                            !.penalties_goals_against = @ + penalties_goals_against,
                            !.penalties_played = @ + penalties_played]
        w == winner(f)
        wins == IF w.team = team_name THEN 1 ELSE 0
        losses == IF w.team # NoTeam /\ w.team # team_name THEN 1 ELSE 0
        draws == IF w.team = NoTeam THEN 1 ELSE 0
        e2 == [e1 EXCEPT !.wins = @ + wins, !.losses = @ + losses, !.draws = @ + draws]
        gw == try_add_greatest(e2, f, TRUE)
        gl == try_add_greatest(gw.team, f, FALSE)
        this_matchup == MatchupHistory(opponent_name, goals_against, goals_for,
                                       penalties_played, penalties_goals_against,
                                       penalties_goals_for, wins, draws, losses)
        e3 == [gl.team EXCEPT !.matchups = AddMatchup(@, this_matchup)]
    IN  IF ~w.ok THEN Failed(pl, w.err, {f.team1, f.team2})
        ELSE IF w.team = NoTeam /\ ~is_groups
        THEN Failed(pl, "IllegalDraw", {team_name, opponent_name})
        ELSE IF ~gw.ok \/ ~gl.ok THEN Failed(pl, w.err, {f.team1, f.team2})
        ELSE Done((team_name :> e3) @@ pl)

\* update_teams handing is_groups = true to update_team whatever the stage.
update_teamsInGroups(pl, f, is_groups) ==
    LET r1 == update_team(pl, f, TRUE, TRUE) IN
    IF ~r1.ok THEN r1 ELSE update_team(r1.pl, f, FALSE, TRUE)

\* TournamentPlacements::update_teams, tournament.rs:767-776
update_teams(pl, f, is_groups) ==
    LET r1 == update_team(pl, f, TRUE, is_groups) IN
    IF ~r1.ok THEN r1 ELSE update_team(r1.pl, f, FALSE, is_groups)

\* ---------------------------------------------------------------- Team::add
\* Team::from, team.rs:85-102, with the participations (None being the
\* empty vector).
NewTeam(name) == NewTeamPlacement(name) @@ [participations |-> <<>>]

\* Team::reset_greatest, team.rs:159-162
reset_greatest(team) == [team EXCEPT !.greatest_win = <<>>, !.greatest_loss = <<>>]

\* The other record's greatest fixture taken whenever it has one.
AddGreatestAdopted(team, other_greatest, win) ==
    IF other_greatest = <<>> THEN [ok |-> TRUE, team |-> team]
    ELSE [ok |-> TRUE,
          team |-> IF win THEN [team EXCEPT !.greatest_win = other_greatest]
                   ELSE [team EXCEPT !.greatest_loss = other_greatest]]

\* "if let Some(other_greatest_..) = .. { self.try_add_greatest_..(..)? }",
\* team.rs:114-119
AddGreatest(team, other_greatest, win) ==
    IF other_greatest = <<>> THEN [ok |-> TRUE, team |-> team]
    ELSE try_add_greatest(team, other_greatest[1], win)

\* The matchups of self kept as they are.
MergeMatchupsKept(matchups_self, matchups_other, k) == matchups_self

\* The loop over matchups_other, team.rs:127-137, from its k-th entry on.
RECURSIVE MergeMatchups(_, _, _)
MergeMatchups(matchups_self, matchups_other, k) ==
    IF k > Len(matchups_other) THEN matchups_self
    ELSE MergeMatchups(AddMatchup(matchups_self, matchups_other[k]), matchups_other, k + 1)

\* Team::add, team.rs:104-145 (self and other have the same name): self
\* after the call, and whether a try_add_greatest failed.
TeamAdd(self, other) ==
    LET s1 == [self EXCEPT !.goals_against = @ + other.goals_against,
                           !.goals_for = @ + other.goals_for,
                           !.penalties_played = @ + other.penalties_played,
                           !.penalties_goals_against = @ + other.penalties_goals_against,
                           !.penalties_goals_for = @ + other.penalties_goals_for,
                           !.wins = @ + other.wins,
                           !.draws = @ + other.draws,
                           !.losses = @ + other.losses]
        gl == AddGreatest(s1, other.greatest_loss, FALSE)
        gw == AddGreatest(gl.team, other.greatest_win, TRUE)
        s2 == [gw.team EXCEPT
                  !.matchups = IF @ = <<>> THEN other.matchups
                               ELSE MergeMatchups(@, other.matchups, 1),
                  !.participations = @ \o other.participations]
    IN  IF ~gl.ok THEN [ok |-> FALSE, team |-> s1]
        ELSE IF ~gw.ok THEN [ok |-> FALSE, team |-> gl.team]
        ELSE [ok |-> TRUE, team |-> s2]

\* ------------------------------------------------------------ the brackets
\* floor(log2(n)) and ceil(log2(n)) as tournament.rs:639-642 computes them
\* from f32::log2 (exact for the u8 values that occur).
RECURSIVE FloorLog2(_)
FloorLog2(n) == IF n <= 1 THEN 0 ELSE 1 + FloorLog2(n \div 2)

RECURSIVE Pow2(_)
Pow2(k) == IF k = 0 THEN 1 ELSE 2 * Pow2(k - 1)

CeilLog2(n) == IF Pow2(FloorLog2(n)) = n THEN FloorLog2(n) ELSE FloorLog2(n) + 1

NoStage == [teams_left |-> 0, fixtures_in_stage |-> 0, stages_left |-> 0,
            teams_to_subtract |-> 0, cutoffs |-> {}]

\* The locals of winners_bracket before its loop, tournament.rs:639-646
WinnersStage(playoff_teams) ==
    LET first == playoff_teams - Pow2(FloorLog2(playoff_teams)) IN
    [teams_left |-> playoff_teams,
     fixtures_in_stage |-> IF first = 0 THEN playoff_teams \div 2 ELSE first,
     stages_left |-> CeilLog2(playoff_teams),
     teams_to_subtract |-> 0, cutoffs |-> {}]

\* teams_left halved at the end of every stage.
WinnersAdvanceHalved(st) ==
    IF st.fixtures_in_stage - 1 = 0
    THEN [st EXCEPT !.stages_left = @ - 1,
                    !.teams_left = @ \div 2,
                    !.fixtures_in_stage = st.teams_left \div 4]
    ELSE [st EXCEPT !.fixtures_in_stage = @ - 1]

\* The end of one iteration of the loop of winners_bracket, tournament.rs:666-672
WinnersAdvance(st) ==
    IF st.fixtures_in_stage - 1 = 0
    THEN [st EXCEPT !.stages_left = @ - 1,
                    !.teams_left = Pow2(st.stages_left - 1),
                    !.fixtures_in_stage = Pow2(st.stages_left - 1) \div 2]
    ELSE [st EXCEPT !.fixtures_in_stage = @ - 1]

\* Both teams of a playoff fixture get the coarse rank teams_left,
\* tournament.rs:661-664 and 599-602.
SetBoth(pl, f, placement) ==
    set_placement(set_placement(pl, loser(f).team, placement), winner(f).team, placement)

\* ------------------------------------------------------------- GroupTeam
\* Ordering as -1 (Less), 0 (Equal), 1 (Greater); Ordering::then.
Sgn(x, y) == IF x < y THEN -1 ELSE IF x > y THEN 1 ELSE 0
Then(o1, o2) == IF o1 # 0 THEN o1 ELSE o2

\* impl Ord for GroupTeam, tournament.rs:122-141
GroupCmp(a, b) ==
    Then(Sgn(a.points, b.points),
    Then(Sgn(a.goals_for - a.goals_against, b.goals_for - b.goals_against),
    Then(Sgn(a.goals_for, b.goals_for),
         IF a.head_to_head # None /\ b.head_to_head # None
         THEN Sgn(a.head_to_head, b.head_to_head)
         ELSE 0)))

\* GroupTeam::points_from_fixture_result, tournament.rs:105-113
points_from_fixture_result(goals_for, goals_against) ==
    IF goals_for > goals_against THEN 3
    ELSE IF goals_for = goals_against THEN 1
    ELSE 0

\* GroupTeam::from_fixture_result, tournament.rs:88-103
from_fixture_result(group, team, goals_for, goals_against) ==
    [group |-> group, team |-> team,
     points |-> points_from_fixture_result(goals_for, goals_against),
     goals_for |-> goals_for, goals_against |-> goals_against,
     head_to_head |-> None]

\* GroupTeam::add_from_fixture_result, tournament.rs:115-119
add_from_fixture_result(gt, goals_for, goals_against) ==
    [gt EXCEPT !.points = @ + points_from_fixture_result(goals_for, goals_against),
               !.goals_for = @ + goals_for,
               !.goals_against = @ + goals_against]

\* team_scores.entry(team).and_modify(..).or_insert(..), tournament.rs:194-212
ScoreEntry(ts, group, team, goals_for, goals_against) ==
    IF team \in DOMAIN ts
    THEN [ts EXCEPT ![team] = add_from_fixture_result(@, goals_for, goals_against)]
    ELSE (team :> from_fixture_result(group, team, goals_for, goals_against)) @@ ts

\* ------------------------------------------------------ the final ordering
\* The comparator stopping at the goals scored and never raising sort_error.
FinalCmpNoError(a, b, t, ws, qs) ==
    [ord |-> Then(Sgn(a.placement, b.placement),
             Then(Sgn(b.goals_for - b.goals_against, a.goals_for - a.goals_against),
                  Sgn(b.goals_for, a.goals_for))),
     err |-> FALSE]

\* The comparator of the sort of PlayoffStage::run, tournament.rs:379-474:
\* the ordering it returns and whether it sets sort_error.
FinalCmp(a, b, t, ws, qs) ==
    LET o123 == Then(Sgn(a.placement, b.placement),
                Then(Sgn(b.goals_for - b.goals_against, a.goals_for - a.goals_against),
                     Sgn(b.goals_for, a.goals_for)))
        prev == {i \in 1..Len(ws) :
                    \/ (ws[i].team1 = a.name /\ ws[i].team2 = b.name)
                    \/ (ws[i].team1 = b.name /\ ws[i].team2 = a.name)}
        g == ws[CHOOSE i \in prev : \A j \in prev : i <= j]
        o4 == IF ~t.has_losers \/ prev = {} THEN 0
              ELSE IF ~winner(g).ok THEN 0
              ELSE IF winner(g).team = a.name THEN -1 ELSE 1
        e4 == t.has_losers /\ prev # {} /\ ~winner(g).ok
        a_team == {q \in qs : q.team = a.name}
        b_team == {q \in qs : q.team = b.name}
        o5 == IF ~t.has_groups THEN 0
              ELSE IF a_team = {} /\ b_team = {} THEN 0
              ELSE IF a_team = {} THEN 1
              ELSE IF b_team = {} THEN -1
              ELSE GroupCmp(CHOOSE q \in b_team : TRUE, CHOOSE q \in a_team : TRUE)
        e5 == t.has_groups /\ (a_team = {} \/ b_team = {})
        both == a.head_to_head # None /\ b.head_to_head # None
        o6 == IF both THEN Sgn(a.head_to_head, b.head_to_head) ELSE 0
    IN  IF o123 # 0 THEN [ord |-> o123, err |-> FALSE]
        ELSE IF o4 # 0 THEN [ord |-> o4, err |-> FALSE]
        ELSE IF o5 # 0 THEN [ord |-> o5, err |-> e4 \/ e5]
        ELSE [ord |-> o6, err |-> e4 \/ e5 \/ ~both]

\* The orders of the teams of pl, as sequences.
Orders(S) ==
    {p \in [1..Cardinality(S) -> S] : \A i, j \in 1..Cardinality(S) : i # j => p[i] # p[j]}

\* sort_teams never failing: teams that compare Equal are left in some order.
sort_teamsAnyOrder(S) ==
    [ok |-> TRUE,
     teams |-> CHOOSE p \in Orders(S) :
                   \A i \in 2..Len(p) : GroupCmp(p[i - 1], p[i]) >= 0]

\* GroupTeams::sort_teams, tournament.rs:38-61: best team first.  The
\* comparator raises the failure flag on Ordering::Equal, and a sort cannot
\* place two teams that compare Equal without comparing two such teams.
sort_teams(S) ==
    IF \E a, b \in S : a # b /\ GroupCmp(a, b) = 0
    THEN [ok |-> FALSE, teams |-> <<>>]
    ELSE [ok |-> TRUE,
          teams |-> CHOOSE p \in Orders(S) :
                        \A i \in 2..Len(p) : GroupCmp(p[i - 1], p[i]) = 1]

\* The pairs a failed sort_teams may name, tournament.rs:40-48:
\* failed_team1 and failed_team2 hold the pair compared Equal last, and
\* which pair that is depends on the order the HashMap yields the teams in.
TiedPairs(S) ==
    {{p[1].team, p[2].team} :
        p \in {q \in S \X S : q[1] # q[2] /\ GroupCmp(q[1], q[2]) = 0}}

Range(seq) == {seq[i] : i \in 1..Len(seq)}

\* sort_unstable_by over the values of the HashMap, tournament.rs:377-475.
\* The map's iteration order is arbitrary and a slice this short is sorted
\* by insertion: sort_error is set in some run iff some pair of teams makes
\* the comparator set it (the pair is compared when the map yields it
\* first), and the sort ends in order p without it in some run iff no
\* element of p is less than the one before it and comparing them sets no
\* error (the map yields p itself).
SortMayFail(pl, t, ws, qs) ==
    \E a, b \in DOMAIN pl : a # b /\ FinalCmp(pl[a], pl[b], t, ws, qs).err

SortedOrders(pl, t, ws, qs) ==
    {p \in Orders(DOMAIN pl) :
        \A i \in 2..Len(p) :
            LET c == FinalCmp(pl[p[i]], pl[p[i - 1]], t, ws, qs) IN
            ~c.err /\ c.ord >= 0}

\* Ranked without the rewrite of the ranks.
RankedCoarse(pl, p) == [i \in 1..Len(p) |-> pl[p[i]]]

\* "Give the correct rank numbers from 1..n", tournament.rs:477-480
Ranked(pl, p) == [i \in 1..Len(p) |-> [pl[p[i]] EXCEPT !.placement = i]]

\* "Fill in Head To Head between equal teams", tournament.rs:363-372
FillHeadToHead(pl, h) ==
    [t \in DOMAIN pl |->
        IF t \in DOMAIN h /\ h[t] # None THEN [pl[t] EXCEPT !.head_to_head = h[t]]
        ELSE pl[t]]

\* ------------------------------------------------- the definitions drawn
\* The fixtures a definition may list next.  Team names carry no meaning
\* (every map over them is a HashMap), so a definition names its teams in
\* the order of their first fixture: with teams 1..m seen, a fixture names
\* seen teams, m+1, or m+1 and m+2.  Outside the grand final the two sides
\* of a fixture are handled alike and team1 < team2 is drawn.
CanonicalPair(a, b, m) ==
    /\ a # b
    /\ \/ (a <= m + 1 /\ b <= m + 1)
       \/ (a = m + 1 /\ b = m + 2)
       \/ (b = m + 1 /\ a = m + 2)

Pairs(m, cap, ordered) ==
    {p \in Teams \X Teams :
        /\ CanonicalPair(p[1], p[2], m)
        /\ p[1] <= cap /\ p[2] <= cap
        /\ (ordered \/ p[1] < p[2])}

\* Scores and penalties of a drawn fixture.  Lines: every combination of
\* scores, without penalties or with the penalty fields given.  PlainLines
\* (the definitions with a losers bracket or with more than one group
\* fixture, which list more fixtures): the same without the shoot-outs
\* that have a winner.
Lines == Scores \X Scores \X Pens \X Pens

PlainLines == {l \in Lines : l[3] = None \/ l[4] = None \/ l[3] = l[4]}

LinesOf(t) ==
    IF t.has_losers \/ (t.has_groups /\ t.n_groups > 1) THEN PlainLines ELSE Lines

\* A definition without groups names at most one team more than
\* playoff_teams (one is enough to fail the count of the teams), and none
\* more when it has a losers bracket.
CapOf(t) ==
    IF t.has_groups THEN MaxTeams
    ELSE IF t.has_losers THEN t.playoff_teams
    ELSE t.playoff_teams + 1

\* The definitions with a losers bracket and MaxTeams teams are not drawn
\* pair by pair: their fixtures name the pairs of ScriptPairs (winners
\* bracket 2-3, 1-4, 1-2; losers bracket 3-4 twice; grand final 3-4) and
\* each ends 0-0 and is decided by a shoot-out, so that every team ends
\* level on goal difference and goals scored.
ScriptPairs == <<<<2, 3>>, <<1, 4>>, <<1, 2>>, <<3, 4>>, <<3, 4>>, <<3, 4>>, <<3, 4>>>>

ScriptLines ==
    {l \in Lines : l[1] = 0 /\ l[2] = 0 /\ l[3] # None /\ l[4] # None /\ l[3] # l[4]}

\* The definitions with a losers bracket and more teams: six teams, of
\* which 1 and 2 enter in the second stage of the winners bracket (3-6,
\* 4-5, then 1-4, 2-3, then 1-2), a losers bracket of two fixtures, one
\* and one (3-5, 4-6, then 3-4, then 2-3), and the grand final 1-2.  The
\* team named first wins each fixture 1-0, or, in the losers bracket, in
\* a shoot-out after 0-0.
ScriptPairsLarge ==
    <<<<3, 6>>, <<4, 5>>, <<1, 4>>, <<2, 3>>, <<1, 2>>,
      <<3, 5>>, <<4, 6>>, <<3, 4>>, <<2, 3>>, <<1, 2>>>>

ScriptLinesLarge(in_losers) ==
    {l \in Lines : \/ (l[1] = 1 /\ l[2] = 0 /\ l[3] = None /\ l[4] = None)
                   \/ (in_losers /\ l[1] = 0 /\ l[2] = 0 /\ l[3] = 1 /\ l[4] = 0)}

ScriptTeams(pairs) == UNION {{pairs[k][1], pairs[k][2]} : k \in DOMAIN pairs}

Scripted(t) == t.has_losers /\ ~t.has_groups /\ t.playoff_teams >= MaxTeams

DrawnFixtures(m, t, ordered, groupIds) ==
    IF Scripted(t)
    THEN LET k == Len(winners) + Len(losers) + Len(gfs) + 1
             large == t.playoff_teams = Cardinality(ScriptTeams(ScriptPairsLarge))
             p == IF large THEN ScriptPairsLarge[k] ELSE ScriptPairs[k]
         IN  {Fixture(p[1], p[2], l[1], l[2], l[3], l[4], None) :
                 l \in IF large
                       THEN ScriptLinesLarge(Len(winners) = t.n_winners
                                             /\ Len(losers) < t.n_losers)
                       ELSE ScriptLines}
    ELSE {Fixture(p[1], p[2], l[1], l[2], l[3], l[4], g) :
             p \in Pairs(m, CapOf(t), ordered), l \in LinesOf(t), g \in groupIds}

\* head_to_head: Option<Vec<HeadToHead>>, as the map team -> decider_points
\* its entries leave (a later entry of a team overwrites an earlier one).
\* The comparators read a decider value only of a team that is level with
\* another one on the rank, the goal difference and the goals scored, so the
\* list names such teams (the set `level`), or the first team that did not
\* play.
HeadToHeads(level, m) ==
    {h \in [Teams -> {None} \cup (0..MaxDecider)] :
        /\ Cardinality({t \in Teams : h[t] # None}) <= MaxDeciders
        /\ \A t \in Teams : h[t] # None => (t \in level \/ t = m + 1)}

\* The teams of pl level with another one before the final ordering.
LevelTeams(pl) ==
    {a \in DOMAIN pl : \E b \in DOMAIN pl \ {a} :
        /\ pl[a].placement = pl[b].placement
        /\ pl[a].goals_for - pl[a].goals_against = pl[b].goals_for - pl[b].goals_against
        /\ pl[a].goals_for = pl[b].goals_for}

\* --------------------------------------------------------- Tournament::run
Seen == Cardinality(DOMAIN placements)

NoPlacements == [t \in {} |-> NewTeamPlacement(t)]
NoTeamScores == [t \in {} |-> 0]
NoHeadToHead == [t \in Teams |-> None]

\* Tournament::run returns Err: its locals are dropped.  What stays is the
\* definition's header, the fixture read last and the error.
\* An error is its kind, the one team or the pair of teams its message
\* names, and the stage label a bracket loop puts in front of the message
\* ("(Groups)", "(Winners Bracket)", "(Losers Bracket)", "(Grand Final)").
NoError == [kind |-> "none", team |-> NoTeam, names |-> {}, stage |-> "none"]
Error(kind, team) == [kind |-> kind, team |-> team, names |-> {}, stage |-> "none"]
StageError(label, kind, names) ==
    [kind |-> kind, team |-> NoTeam, names |-> names, stage |-> label]

\* FailWith: the same once the head_to_head list h has been read.
FailWith(e, f, h) ==
    /\ pc' = "failed"
    /\ err' = e
    /\ cur' = f
    /\ placements' = NoPlacements
    /\ stage' = NoStage
    /\ winners' = <<>>
    /\ losers' = <<>>
    /\ gfs' = <<>>
    /\ groups' = <<>>
    /\ head_to_head' = h
    /\ team_scores' = NoTeamScores
    /\ groups_seen' = {}
    /\ qualifying' = {}
    /\ result' = <<>>
    /\ UNCHANGED tourn

Fail(e, f) == FailWith(e, f, NoHeadToHead)

\* An unwrap() or expect() of Tournament::run panics: the thread unwinds.
Panic(e) ==
    /\ pc' = "panicked"
    /\ err' = Error(e, NoTeam)
    /\ placements' = NoPlacements
    /\ stage' = NoStage
    /\ winners' = <<>>
    /\ losers' = <<>>
    /\ gfs' = <<>>
    /\ groups' = <<>>
    /\ head_to_head' = NoHeadToHead
    /\ team_scores' = NoTeamScores
    /\ groups_seen' = {}
    /\ qualifying' = {}
    /\ result' = <<>>
    /\ UNCHANGED <<tourn, cur>>

\* The group identifiers a group fixture may carry: none, a group seen, or
\* the next one (the identifiers carry no meaning either).
GroupIds == {None} \cup {g \in 1..MaxGroups : g <= Cardinality(groups_seen) + 1}

\* One iteration of the loop of GroupStage::run, tournament.rs:171-213
GroupFixture ==
    /\ pc = "groups"
    /\ Len(groups) < tourn.n_groups
    /\ \E f \in DrawnFixtures(Seen, tourn, FALSE, GroupIds) :
          LET r == update_teams(placements, f, TRUE) IN
          IF ~r.ok
          THEN Fail(StageError("Groups", r.err, r.names), <<f>>)
          ELSE IF f.group = None
          THEN Fail(StageError("Groups", "MissingGroup", {f.team1, f.team2}), <<f>>)
          ELSE /\ placements' = r.pl
               /\ groups_seen' = groups_seen \cup {f.group}
               /\ team_scores' =
                      ScoreEntry(ScoreEntry(team_scores, f.group, f.team1, f.score1, f.score2),
                                 f.group, f.team2, f.score2, f.score1)
               /\ groups' = Append(groups, f)
               /\ cur' = <<f>>
               /\ UNCHANGED <<tourn, winners, losers, gfs, head_to_head, pc, err,
                              stage, qualifying, result>>
    /\ UNCHANGED <<fxVars, batchVars>>

\* The teams of team_scores level with another one on points, goal
\* difference and goals scored.
GroupLevelTeams(ts) ==
    {a \in DOMAIN ts : \E b \in DOMAIN ts \ {a} :
        /\ ts[a].points = ts[b].points
        /\ ts[a].goals_for - ts[a].goals_against = ts[b].goals_for - ts[b].goals_against
        /\ ts[a].goals_for = ts[b].goals_for}

\* The GroupTeams of one group, tournament.rs:234-240
TeamsOfGroup(ts, g) == {ts[t] : t \in {u \in DOMAIN ts : ts[u].group = g}}

\* One iteration of the loop over groups_seen, tournament.rs:233-254: how
\* it ends for group g with q teams qualifying per group.
GroupOutcome(ts, g, q) ==
    LET group_teams == sort_teams(TeamsOfGroup(ts, g)) IN
    IF ~group_teams.ok THEN "SortError"
    ELSE IF q > Len(group_teams.teams) THEN "SplitOff"
    ELSE IF q = Len(group_teams.teams) THEN "NoWildcardCandidate"
    ELSE "ok"

\* The drain keeping the end of the sorted candidates instead of the front.
WildcardsWorst(wildcard_candidates, wildcards_count) ==
    Range(SubSeq(wildcard_candidates, Len(wildcard_candidates) - wildcards_count + 1,
                 Len(wildcard_candidates)))

\* wildcard_candidates.drain(wildcards_count..), tournament.rs:257: the
\* candidates that stay, of the sorted ones.
Wildcards(wildcard_candidates, wildcards_count) ==
    Range(SubSeq(wildcard_candidates, 1, wildcards_count))

\* The placements of the eliminated teams, tournament.rs:269-272
Eliminate(pl, eliminated_teams, team_count) ==
    [t \in DOMAIN pl |->
        IF \E i \in 1..Len(eliminated_teams) : eliminated_teams[i].team = t
        THEN LET i == CHOOSE j \in 1..Len(eliminated_teams) : eliminated_teams[j].team = t
             IN  [pl[t] EXCEPT !.placement = team_count - (Len(eliminated_teams) - i)]
        ELSE pl[t]]

\* GroupStage::run after its loop, tournament.rs:215-274
GroupResolve ==
    /\ pc = "groups"
    /\ Len(groups) = tourn.n_groups
    /\ \E h \in HeadToHeads(GroupLevelTeams(team_scores), Seen) :
          IF \E t \in Teams : h[t] # None /\ t \notin DOMAIN team_scores
          THEN Panic("HeadToHeadTeam")
          ELSE IF groups_seen = {}
          THEN Panic("DivideByZero")
          ELSE
            LET ts == [t \in DOMAIN team_scores |->
                          IF h[t] # None
                          THEN [team_scores[t] EXCEPT !.head_to_head = h[t]]
                          ELSE team_scores[t]]
                team_count == Cardinality(DOMAIN ts)
                qualifying_teams_per_group == tourn.playoff_teams \div Cardinality(groups_seen)
                wildcards_count == tourn.playoff_teams
                                   - qualifying_teams_per_group * Cardinality(groups_seen)
                bad == {g \in groups_seen :
                            GroupOutcome(ts, g, qualifying_teams_per_group) # "ok"}
                sorted(g) == sort_teams(TeamsOfGroup(ts, g)).teams
                candidates == {sorted(g)[qualifying_teams_per_group + 1] : g \in groups_seen}
                wildcard_candidates == sort_teams(candidates)
                qualifying_teams ==
                    UNION {Range(SubSeq(sorted(g), 1, qualifying_teams_per_group)) :
                              g \in groups_seen}
                    \cup Wildcards(wildcard_candidates.teams, wildcards_count)
                eliminated == {ts[t] : t \in DOMAIN ts} \ qualifying_teams
                eliminated_teams == sort_teams(eliminated)
            IN  IF bad # {}
                THEN \E g \in bad :
                        IF GroupOutcome(ts, g, qualifying_teams_per_group) = "SplitOff"
                        THEN Panic("SplitOff")
                        ELSE IF GroupOutcome(ts, g, qualifying_teams_per_group) = "SortError"
                        THEN \E pr \in TiedPairs(TeamsOfGroup(ts, g)) :
                                FailWith(StageError("Groups", "SortError", pr), cur, h)
                        ELSE FailWith(Error(GroupOutcome(ts, g, qualifying_teams_per_group),
                                            NoTeam), cur, h)
                ELSE IF ~wildcard_candidates.ok
                THEN \E pr \in TiedPairs(candidates) :
                        FailWith(StageError("Groups", "SortError", pr), cur, h)
                ELSE IF ~eliminated_teams.ok
                THEN \E pr \in TiedPairs(eliminated) :
                        FailWith(StageError("Groups", "SortError", pr), cur, h)
                ELSE /\ placements' = Eliminate(placements, eliminated_teams.teams, team_count)
                     /\ qualifying' = qualifying_teams
                     /\ team_scores' = ts
                     /\ head_to_head' = h
                     /\ pc' = "playoffs"
                     /\ UNCHANGED <<tourn, winners, losers, gfs, groups, groups_seen, cur,
                                    err, stage, result>>
    /\ UNCHANGED <<fxVars, batchVars>>

\* A subtraction of u8 values that overflows wraps around when the
\* overflow checks are compiled out.
WrapU8(n) == n % 256

\* PlayoffStage::run up to the loop of winners_bracket, tournament.rs:325-345
\* and 628-646.  "playoff_teams - 1" is a subtraction of u8 values: with
\* playoff_teams = 0 it panics when the overflow checks are compiled in
\* and wraps around otherwise.
PlayoffBegin ==
    /\ pc = "playoffs"
    /\ IF /\ tourn.has_groups
          /\ Cardinality({t \in DOMAIN placements : placements[t].placement = None})
                 # tourn.playoff_teams
       THEN Fail(Error("QualifiedCount", NoTeam), cur)
       ELSE \/ /\ tourn.playoff_teams - 1 < 0
               /\ Panic("SubtractOverflow")
            \/ IF WrapU8(tourn.playoff_teams - 1) # tourn.n_winners
               THEN Fail(Error("WinnersCount", NoTeam), cur)
               ELSE /\ pc' = "winners"
                    /\ stage' = WinnersStage(tourn.playoff_teams)
                    /\ UNCHANGED <<tourn, winners, losers, gfs, cur, err, placements,
                                   qualifying, result, groupVars>>
    /\ UNCHANGED <<fxVars, batchVars>>

\* One iteration of the loop of winners_bracket, tournament.rs:648-673
WinnersFixture ==
    /\ pc = "winners"
    /\ Len(winners) < tourn.n_winners
    /\ \E f \in DrawnFixtures(Seen, tourn, FALSE, {None}) :
          LET r == update_teams(placements, f, FALSE) IN
          IF ~r.ok
          THEN Fail(StageError("Winners Bracket", r.err, r.names), <<f>>)
          ELSE /\ placements' = SetBoth(r.pl, f, stage.teams_left)
               /\ stage' = WinnersAdvance(stage)
               /\ winners' = Append(winners, f)
               /\ cur' = <<f>>
               /\ UNCHANGED <<tourn, losers, gfs, pc, err, qualifying, result, groupVars>>
    /\ UNCHANGED <<fxVars, batchVars>>

\* The end of winners_bracket, tournament.rs:675-684
WinnersEnd ==
    /\ pc = "winners"
    /\ Len(winners) = tourn.n_winners
    /\ IF tourn.n_gf = None /\ winners = <<>>
       THEN Panic("NoLastGame")
       ELSE /\ placements' =
                  IF tourn.n_gf = None
                  THEN LET last_game == winners[Len(winners)] IN
                       set_placement(set_placement(placements,
                           winner(last_game).team, 1), loser(last_game).team, 2)
                  ELSE placements
            /\ pc' = IF tourn.has_losers THEN "losers" ELSE "order"
            /\ UNCHANGED <<tourn, winners, losers, gfs, cur, err, stage, qualifying,
                           result, groupVars>>
    /\ UNCHANGED <<fxVars, batchVars>>

\* The simulation that opens losers_bracket, tournament.rs:566-577: the
\* values pushed to stage_cutoff_if_n_teams.
RECURSIVE LosersCutoffs(_, _, _, _)
LosersCutoffs(playoff_teams, teams_left, stages_left, add_teams) ==
    IF teams_left < playoff_teams
    THEN LET add == IF stages_left % 2 = 0
                    THEN (IF add_teams * 2 > 1 THEN add_teams * 2 ELSE 1)
                    ELSE add_teams
         IN  {teams_left} \cup LosersCutoffs(playoff_teams, teams_left + add,
                                             stages_left + 1, add)
    ELSE {}

\* stages_left after the simulation: 2 plus the number of its iterations.
LosersStage(playoff_teams) ==
    [teams_left |-> playoff_teams,
     fixtures_in_stage |-> 0,
     stages_left |-> 2 + Cardinality(LosersCutoffs(playoff_teams, 2, 2, 0)),
     teams_to_subtract |-> 0,
     cutoffs |-> LosersCutoffs(playoff_teams, 2, 2, 0)]

\* One team removed at the end of a stage.
LosersAdvanceByOne(st) ==
    IF (st.teams_left - (st.teams_to_subtract + 1)) \in st.cutoffs
    THEN [st EXCEPT !.stages_left = @ - 1,
                    !.teams_left = @ - 1,
                    !.teams_to_subtract = 0]
    ELSE [st EXCEPT !.teams_to_subtract = @ + 1]

\* "Remove teams at end of stage", tournament.rs:604-610
LosersAdvance(st) ==
    IF (st.teams_left - (st.teams_to_subtract + 1)) \in st.cutoffs
    THEN [st EXCEPT !.stages_left = @ - 1,
                    !.teams_left = @ - (st.teams_to_subtract + 1),
                    !.teams_to_subtract = 0]
    ELSE [st EXCEPT !.teams_to_subtract = @ + 1]

\* losers_bracket up to its loop, tournament.rs:552-582.  "playoff_teams
\* - 2" is evaluated first, and overflows for playoff_teams < 2.
LosersBegin ==
    /\ pc = "losers"
    /\ \/ /\ tourn.playoff_teams - 2 < 0
          /\ Panic("SubtractOverflow")
       \/ IF tourn.n_losers = None
          THEN Panic("LosersNone")
          ELSE IF WrapU8(tourn.playoff_teams - 2) # tourn.n_losers
          THEN Fail(Error("LosersCount", NoTeam), cur)
          ELSE /\ pc' = "losersloop"
               /\ stage' = LosersStage(tourn.playoff_teams)
               /\ UNCHANGED <<tourn, winners, losers, gfs, cur, err, placements,
                              qualifying, result, groupVars>>
    /\ UNCHANGED <<fxVars, batchVars>>

\* One iteration of the loop of losers_bracket, tournament.rs:583-611
LosersFixture ==
    /\ pc = "losersloop"
    /\ Len(losers) < tourn.n_losers
    /\ \E f \in DrawnFixtures(Seen, tourn, FALSE, {None}) :
          LET r == update_teams(placements, f, FALSE) IN
          IF ~r.ok
          THEN Fail(StageError("Losers Bracket", r.err, r.names), <<f>>)
          ELSE /\ placements' = SetBoth(r.pl, f, stage.teams_left)
               /\ stage' = LosersAdvance(stage)
               /\ losers' = Append(losers, f)
               /\ cur' = <<f>>
               /\ UNCHANGED <<tourn, winners, gfs, pc, err, qualifying, result, groupVars>>
    /\ UNCHANGED <<fxVars, batchVars>>

\* One iteration of the loop of grand_final, tournament.rs:525-548
GrandFinalStep(f) ==
    LET r == update_teams(placements, f, FALSE) IN
    IF ~r.ok
    THEN Fail(StageError("Grand Final", r.err, r.names), <<f>>)
    ELSE IF winner(f).team = NoTeam \/ loser(f).team = NoTeam
    THEN Fail(Error("GrandFinalDrawn", NoTeam), <<f>>)
    ELSE /\ placements' = set_placement(set_placement(r.pl, loser(f).team, 2),
                                        winner(f).team, 1)
         /\ gfs' = Append(gfs, f)
         /\ cur' = <<f>>
         /\ pc' = IF Len(gfs) + 1 = tourn.n_gf THEN "order" ELSE "gfloop"
         /\ UNCHANGED <<tourn, winners, losers, err, stage, qualifying, result, groupVars>>

\* Which finalist grand_final takes to come from the losers bracket,
\* tournament.rs:500-507
team_from_losers(pl, f) ==
    IF pl[f.team1].placement = 3 THEN f.team1 ELSE f.team2

\* grand_final up to the end of the first iteration of its loop,
\* tournament.rs:485-548
GrandFinalBegin ==
    /\ pc = "losersloop"
    /\ Len(losers) = tourn.n_losers
    /\ IF tourn.n_gf = None
       THEN Panic("GrandFinalNone")
       ELSE IF tourn.n_gf = 0 \/ tourn.n_gf > 2
       THEN Fail(Error("GrandFinalCount", NoTeam), cur)
       ELSE \E f \in DrawnFixtures(Seen, tourn, TRUE, {None}) :
              IF f.team1 \notin DOMAIN placements \/ f.team2 \notin DOMAIN placements
              THEN Panic("GrandFinalTeam")
              ELSE IF placements[f.team1].placement = None
              THEN Panic("GrandFinalPlacement")
              ELSE IF ~winner(f).ok
              THEN Fail(StageError("none", winner(f).err, {f.team1, f.team2}), <<f>>)
              ELSE IF /\ winner(f).team # NoTeam
                      /\ tourn.n_gf = 1
                      /\ winner(f).team = team_from_losers(placements, f)
              THEN Fail(Error("ResetRequired", winner(f).team), <<f>>)
              ELSE IF /\ winner(f).team # NoTeam
                      /\ tourn.n_gf = 2
                      /\ winner(f).team # team_from_losers(placements, f)
              THEN Fail(Error("NoResetNeeded", winner(f).team), <<f>>)
              ELSE GrandFinalStep(f)
    /\ UNCHANGED <<fxVars, batchVars>>

\* The second iteration of the loop of grand_final, tournament.rs:525-548
GrandFinalFixture ==
    /\ pc = "gfloop"
    /\ \E f \in DrawnFixtures(Seen, tourn, TRUE, {None}) : GrandFinalStep(f)
    /\ UNCHANGED <<fxVars, batchVars>>

\* The head_to_head lists the final ordering may meet.  Without a group
\* stage the list is read here for the first time.  After a group stage it
\* is the list GroupStage::run read, which may also name group teams whose
\* value only the final ordering reads.
FinalHeadToHeads ==
    IF ~tourn.has_groups
    THEN HeadToHeads(LevelTeams(placements), Seen)
    ELSE {h \in [Teams -> {None} \cup (0..MaxDecider)] :
            /\ Cardinality({t \in Teams : h[t] # None}) <= MaxDeciders
            /\ \A t \in Teams :
                  IF head_to_head[t] # None \/ t \in GroupLevelTeams(team_scores)
                  THEN h[t] = head_to_head[t]
                  ELSE h[t] # None =>
                          (t \in LevelTeams(placements) /\ t \in DOMAIN team_scores)}

\* The end of PlayoffStage::run, tournament.rs:351-482: the count of the
\* teams, the head-to-head values, the final ordering and the ranks.
FinalOrder ==
    /\ pc = "order"
    /\ IF ~tourn.has_groups /\ Seen # tourn.playoff_teams
       THEN Fail(Error("TeamCount", NoTeam), cur)
       ELSE \E h \in FinalHeadToHeads :
              IF \E t \in Teams : h[t] # None /\ t \notin DOMAIN placements
              THEN Panic("HeadToHeadTeam")
              ELSE LET pl == FillHeadToHead(placements, h) IN
                   \/ /\ SortMayFail(pl, tourn, winners, qualifying)
                      /\ pc' = "failed"
                      /\ \E a, b \in DOMAIN pl :
                            /\ a # b
                            /\ FinalCmp(pl[a], pl[b], tourn, winners, qualifying).err
                            /\ err' = StageError("none", "SortError", {a, b})
                      /\ head_to_head' = h
                      /\ UNCHANGED <<tourn, winners, losers, gfs, groups, team_scores,
                                     groups_seen, cur, placements, stage, qualifying, result>>
                   \/ \E p \in SortedOrders(pl, tourn, winners, qualifying) :
                      /\ result' = Ranked(pl, p)
                      /\ pc' = "done"
                      /\ head_to_head' = h
                      /\ UNCHANGED <<tourn, winners, losers, gfs, groups, team_scores,
                                     groups_seen, cur, err, placements, stage, qualifying>>
    /\ UNCHANGED <<fxVars, batchVars>>

\* ------------------------------------------------------- specifications
Header(hl, pt, hg, nw, nl, ngf, ng) ==
    [has_losers |-> hl, playoff_teams |-> pt, has_groups |-> hg,
     n_winners |-> nw, n_losers |-> nl, n_gf |-> ngf, n_groups |-> ng]

NoHeader == Header(FALSE, 0, FALSE, 0, None, None, None)

NoRecords == [i \in {} |-> <<>>]

TeamIdle ==
    /\ team_records = <<>>
    /\ pending = NoRecords
    /\ lifetime = <<>>

FxIdle ==
    /\ fx = <<>>
    /\ fxWinner = Unset
    /\ fxLoser = Unset
    /\ TeamIdle

NoStats == [t \in {} |-> <<>>]

BatchIdleAt(at, n) ==
    /\ bpc = at
    /\ cup_paths = n
    /\ cups_read = 0
    /\ all_tournament_results = <<>>
    /\ teams_total_stats = NoStats
    /\ files = {}
    /\ seasons = <<>>
    /\ pushed = 0

BatchIdle == BatchIdleAt("idle", 0)

RunIdleAt(t, at) ==
    /\ tourn = t
    /\ winners = <<>>
    /\ losers = <<>>
    /\ gfs = <<>>
    /\ groups = <<>>
    /\ head_to_head = NoHeadToHead
    /\ team_scores = NoTeamScores
    /\ groups_seen = {}
    /\ cur = <<>>
    /\ pc = at
    /\ err = NoError
    /\ placements = NoPlacements
    /\ stage = NoStage
    /\ qualifying = {}
    /\ result = <<>>

\* Tournament::run dispatches on brackets.groups, tournament.rs:701-706
RunIdle(t) == RunIdleAt(t, IF t.has_groups THEN "groups" ELSE "playoffs")

\* Single elimination: winners bracket only, one fixture too few or too
\* many included, and a final of two with a grand_final list that
\* has_losers = false leaves unread.
InitSE ==
    /\ FxIdle
    /\ BatchIdle
    /\ \/ \E pt \in 2..MaxTeams, d \in {-1, 0, 1} :
             RunIdle(Header(FALSE, pt, FALSE, pt - 1 + d, None, None, None))
       \/ RunIdle(Header(FALSE, 2, FALSE, 1, None, 1, None))

NextSE == PlayoffBegin \/ WinnersFixture \/ WinnersEnd \/ FinalOrder

SpecSE == InitSE /\ [][NextSE]_vars

\* Double elimination: winners bracket, losers bracket, grand final.
InitDE ==
    /\ FxIdle
    /\ BatchIdle
    /\ \E pt \in 2..(MaxTeams - 1), ngf \in 1..2 :
          RunIdle(Header(TRUE, pt, FALSE, pt - 1, pt - 2, ngf, None))

NextDE ==
    \/ PlayoffBegin \/ WinnersFixture \/ WinnersEnd
    \/ LosersBegin \/ LosersFixture \/ GrandFinalBegin \/ GrandFinalFixture
    \/ FinalOrder

SpecDE == InitDE /\ [][NextDE]_vars

\* Double elimination with MaxTeams teams: the scripted definitions.
InitDE4 ==
    /\ FxIdle
    /\ BatchIdle
    /\ \E ngf \in 1..2 :
          RunIdle(Header(TRUE, MaxTeams, FALSE, MaxTeams - 1, MaxTeams - 2, ngf, None))

SpecDE4 == InitDE4 /\ [][NextDE]_vars

\* Double elimination, drawn or scripted, up to the six teams of
\* ScriptPairsLarge.
InitDELarge ==
    /\ FxIdle
    /\ BatchIdle
    /\ LET T == Cardinality(ScriptTeams(ScriptPairsLarge)) IN
       RunIdle(Header(TRUE, T, FALSE, T - 1, T - 2, 1, None))

SpecLosers == (InitDE \/ InitDE4 \/ InitDELarge) /\ [][NextDE]_vars

\* Definitions whose lists of fixtures need not have the lengths that
\* playoff_teams asks for: 0 to 3 playoff teams, a winners bracket of
\* playoff_teams - 1 fixtures or one more or less, and, with has_losers,
\* a losers bracket absent or of playoff_teams - 2 fixtures or one more
\* or less, and a grand final absent or of 0 to 3 fixtures.
FixtureCounts(n) == {k \in {n - 1, n, n + 1} : k >= 0}

InitCounts ==
    /\ FxIdle
    /\ BatchIdle
    /\ \E pt \in 0..(MaxTeams - 1) :
          \/ \E nw \in FixtureCounts(pt - 1) :
                RunIdle(Header(FALSE, pt, FALSE, nw, None, None, None))
          \/ \E nw \in FixtureCounts(pt - 1), nl \in {None} \cup FixtureCounts(pt - 2),
                ngf \in {None} \cup (0..3) :
                RunIdle(Header(TRUE, pt, FALSE, nw, nl, ngf, None))

SpecCounts == (InitDE \/ InitCounts) /\ [][NextDE]_vars

\* A group stage, then a winners bracket.
InitGroups ==
    /\ FxIdle
    /\ BatchIdle
    /\ \E ng \in 1..MaxGroupFixtures, pt \in 1..(MaxTeams - 1) :
          RunIdle(Header(FALSE, pt, TRUE, pt - 1, None, None, ng))

NextGroups ==
    \/ GroupFixture \/ GroupResolve
    \/ PlayoffBegin \/ WinnersFixture \/ WinnersEnd \/ FinalOrder

SpecGroups == InitGroups /\ [][NextGroups]_vars

\* Fixture::winner and Fixture::loser called on one fixture.
CallWinner ==
    /\ fx # <<>>
    /\ fxWinner = Unset
    /\ fxWinner' = winner(fx[1])
    /\ UNCHANGED <<fx, fxLoser, teamVars, runVars, batchVars>>

CallLoser ==
    /\ fx # <<>>
    /\ fxLoser = Unset
    /\ fxLoser' = loser(fx[1])
    /\ UNCHANGED <<fx, fxWinner, teamVars, runVars, batchVars>>

InitFixture ==
    /\ fx \in {<<Fixture(1, 2, l[1], l[2], l[3], l[4], None)>> : l \in Lines}
    /\ fxWinner = Unset
    /\ fxLoser = Unset
    /\ TeamIdle
    /\ RunIdleAt(NoHeader, "idle")
    /\ BatchIdle

NextFixture == CallWinner \/ CallLoser

SpecFixture == InitFixture /\ [][NextFixture]_vars

\* The per-tournament records of team 1 that are merged: what update_team
\* leaves for the team after one fixture against team 2 or 3 (a win, a
\* loss, a draw or a shoot-out), with the participation run_tournaments
\* adds (entry.rs:28-38).
RecordLines ==
    {l \in Lines : (l[3] = None /\ l[4] = None)
                   \/ (l[1] = l[2] /\ l[3] # None /\ l[4] # None /\ l[3] # l[4])}

RecordFixtures == {Fixture(1, o, l[1], l[2], l[3], l[4], None) : o \in {2, 3}, l \in RecordLines}

TeamRecord(f, k) ==
    update_team(NoPlacements, f, TRUE, TRUE).pl[1] @@ [participations |-> <<k>>]

\* The k-th record is drawn; the opponents are named in the order they
\* are first met.
InitTeam ==
    /\ fx = <<>>
    /\ fxWinner = Unset
    /\ fxLoser = Unset
    /\ RunIdleAt(NoHeader, "idle")
    /\ BatchIdle
    /\ \E n \in 1..MaxRecords :
          \E fs \in [1..n -> RecordFixtures] :
              /\ fs[1].team2 = 2
              /\ team_records = [k \in 1..n |-> TeamRecord(fs[k], k)]
    /\ pending = team_records
    /\ lifetime = <<NewTeam(1)>>

\* teams_total_stats.entry(name).or_insert(Team::from(name)).add(&mut tp.team),
\* entry.rs:40-43, for one of the records.
AddToLifetime ==
    /\ lifetime # <<>>
    /\ \E i \in DOMAIN pending \ {0} :
          /\ lifetime' = <<TeamAdd(lifetime[1], pending[i]).team>>
          /\ pending' = [k \in DOMAIN pending \ {i} |-> pending[k]]
    /\ UNCHANGED <<fx, fxWinner, fxLoser, team_records, runVars, batchVars>>

\* Team::add of one record to another one, which is merged later.
AddToRecord ==
    /\ \E i, j \in DOMAIN pending \ {0} :
          /\ i # j
          /\ pending' = [k \in DOMAIN pending \ {j} |->
                            IF k = i THEN TeamAdd(pending[i], pending[j]).team
                            ELSE pending[k]]
    /\ UNCHANGED <<fx, fxWinner, fxLoser, team_records, lifetime, runVars, batchVars>>

\* Team::add of a record to a copy of itself whose greatest fixtures were
\* reset, once; the outcome is kept aside, as record 0.
AddToResetCopy ==
    /\ 0 \notin DOMAIN pending
    /\ \E i \in DOMAIN pending \ {0} :
          pending' = (0 :> TeamAdd(reset_greatest(pending[i]), pending[i]).team) @@ pending
    /\ UNCHANGED <<fx, fxWinner, fxLoser, team_records, lifetime, runVars, batchVars>>

NextTeam == AddToLifetime \/ AddToRecord \/ AddToResetCopy

SpecTeam == InitTeam /\ [][NextTeam]_vars

\* The fixtures of team 1 against team 2 that update_team is given one
\* after the other: any score, without penalties or with a shoot-out of
\* up to MaxShootout goals a side that has a winner.
ShootoutFixtures ==
    {Fixture(1, 2, s1, s2, p1, p2, None) :
        s1 \in Scores, s2 \in Scores, p1 \in 0..MaxShootout, p2 \in 0..MaxShootout}

GreatestFixtures ==
    {f \in ShootoutFixtures : f.pen1 # f.pen2}
        \cup {Fixture(1, 2, s1, s2, None, None, None) : s1 \in Scores, s2 \in Scores}

InitGreatest ==
    /\ fx = <<>>
    /\ fxWinner = Unset
    /\ fxLoser = Unset
    /\ RunIdleAt(NoHeader, "idle")
    /\ BatchIdle
    /\ team_records = <<>>
    /\ pending = NoRecords
    /\ lifetime = <<NewTeam(1)>>

\* update_team for team 1 and the next fixture, tournament.rs:778-878, of
\* the group stage or of a bracket; a fixture that fails ends the run.
UpdateTeam ==
    /\ lifetime # <<>>
    /\ team_records = <<>>
    /\ lifetime[1].wins + lifetime[1].draws + lifetime[1].losses < MaxRecords
    /\ \E f \in GreatestFixtures, is_groups \in BOOLEAN :
          LET r == update_team(1 :> lifetime[1], f, TRUE, is_groups) IN
          /\ r.ok
          /\ fx' = <<f>>
          /\ lifetime' = <<r.pl[1]>>
    /\ UNCHANGED <<fxWinner, fxLoser, team_records, pending, runVars, batchVars>>

SpecGreatest == InitGreatest /\ [][UpdateTeam]_vars

\* Every definition above, and the calls on one fixture.
InitRun == InitFixture \/ InitSE \/ InitDE \/ InitGroups

NextRun ==
    \/ CallWinner \/ CallLoser
    \/ GroupFixture \/ GroupResolve
    \/ PlayoffBegin \/ WinnersFixture \/ WinnersEnd
    \/ LosersBegin \/ LosersFixture \/ GrandFinalBegin \/ GrandFinalFixture
    \/ FinalOrder

SpecRun == InitRun /\ [][NextRun]_vars

\* ------------------------------------------------------- season rankings
Last(seq) == seq[Len(seq)]

Zeros(n) == [i \in 1..n |-> 0]

\* TournamentResult::MAX_POINT_IDX and POINTS, tournament.rs:721-724
MAX_POINT_IDX == 16

POINTS == <<1500, 1100, 900, 750, 600, 500, 400, 300, 200, 100, 50, 25, 12, 6, 3, 1, 0>>

\* TournamentResult::get_teams_ranked, tournament.rs:735-748
get_teams_ranked(tr) ==
    [i \in 1..Len(tr.team_placements) |->
        LET placement == tr.team_placements[i].placement
            idx == IF MAX_POINT_IDX < placement - 1 THEN MAX_POINT_IDX ELSE placement - 1
        IN  [name |-> tr.team_placements[i].name,
             ranking_points |-> <<POINTS[idx + 1]>>,
             ranks |-> <<>>]]

\* "Get correct season for the tournament result", rankings.rs:46-58
SeasonIndex(ss, season_num) ==
    IF \E i \in 1..Len(ss) : ss[i].season_num = season_num
    THEN CHOOSE i \in 1..Len(ss) :
            /\ ss[i].season_num = season_num
            /\ \A j \in 1..(i - 1) : ss[j].season_num # season_num
    ELSE 0

WithSeason(ss, tr) ==
    IF SeasonIndex(ss, tr.season_num) # 0 THEN ss
    ELSE Append(ss, [date |-> tr.date, season_num |-> tr.season_num,
                     rankings |-> <<>>, tournaments |-> <<>>])

\* "Populate ranking points", rankings.rs:70-86: the ranked teams news[k..]
\* merged into rankings, n being tournaments.len() - 1.
RECURSIVE Populate(_, _, _, _)
Populate(rankings, news, k, n) ==
    IF k > Len(news) THEN rankings
    ELSE LET new_r == news[k]
             found == {i \in 1..Len(rankings) : rankings[i].name = new_r.name}
         IN  IF found # {}
             THEN LET i == CHOOSE j \in found : \A l \in found : j <= l
                  IN  Populate([rankings EXCEPT ![i].ranking_points =
                                    Append(@, Last(@) + Last(new_r.ranking_points))],
                               news, k + 1, n)
             ELSE Populate(Append(rankings,
                               [new_r EXCEPT !.ranking_points = Zeros(n) \o @,
                                             !.ranks = Zeros(n) \o @]),
                           news, k + 1, n)

\* The injective maps 1..n -> 1..n.
Perms(n) == {f \in [1..n -> 1..n] : \A i, j \in 1..n : i # j => f[i] # f[j]}

\* sort_unstable_by on the last ranking_points, highest first,
\* rankings.rs:89-91: the orders it may leave (ties in any order).
SortedByPoints(rankings) ==
    {[i \in 1..Len(rankings) |-> rankings[f[i]]] : f \in
        {g \in Perms(Len(rankings)) :
            \A i \in 2..Len(rankings) :
                Last(rankings[g[i - 1]].ranking_points)
                    >= Last(rankings[g[i]].ranking_points)}}

\* "Populate ranks", rankings.rs:94-96
PopulateRanks(rankings) ==
    [i \in 1..Len(rankings) |-> [rankings[i] EXCEPT !.ranks = Append(@, i)]]

\* Seasons::push, rankings.rs:42-97: the values of self.seasons it may leave.
push(ss, tr) ==
    LET ss1 == WithSeason(ss, tr)
        i == SeasonIndex(ss1, tr.season_num)
        tournaments == IF \E k \in 1..Len(ss1[i].tournaments) :
                              ss1[i].tournaments[k] = tr.tournament_name
                       THEN ss1[i].tournaments
                       ELSE Append(ss1[i].tournaments, tr.tournament_name)
        populated == Populate(ss1[i].rankings, get_teams_ranked(tr), 1,
                              Len(tournaments) - 1)
    IN  {[ss1 EXCEPT ![i] = [@ EXCEPT !.tournaments = tournaments,
                                      !.rankings = PopulateRanks(sorted)]] :
            sorted \in SortedByPoints(populated)}

\* --------------------------------------------------------- run_tournaments
BatchTeams == 1..MaxBatchTeams

\* What Tournament::run returns for one file: distinct teams, the i-th of
\* them on rank i.
RankedLists ==
    UNION {{[i \in 1..n |-> [name |-> f[i], placement |-> i]] :
               f \in {g \in [1..n -> BatchTeams] :
                         \A i, j \in 1..n : i # j => g[i] # g[j]}} :
           n \in 1..MaxBatchTeams}

\* TournamentResult::from, tournament.rs:726-733, over the files drawn.
DrawnResults ==
    [tournament_name : 1..MaxNames, season_num : 1..MaxSeasons, date : 1..MaxDate,
     team_placements : RankedLists]

\* Participation::new, tournament.rs:290-297
Participation(tournament_name, placement, date) ==
    [tournament_name |-> tournament_name, date |-> date, placement |-> placement]

\* "Add tournament team stats to teams_total_stats stats", entry.rs:26-44,
\* from the k-th team on: the participations Team::add appends,
\* team.rs:139-142.
RECURSIVE AddTeamStats(_, _, _)
AddTeamStats(stats, tr, k) ==
    IF k > Len(tr.team_placements) THEN stats
    ELSE LET tp == tr.team_placements[k]
             participation == Participation(tr.tournament_name, tp.placement, tr.date)
             old == IF tp.name \in DOMAIN stats THEN stats[tp.name] ELSE <<>>
         IN  AddTeamStats((tp.name :> Append(old, participation)) @@ stats, tr, k + 1)

\* The results left in place, all_tournament_results unsorted.
Unsorted(results) == {results}

\* all_tournament_results.sort_unstable_by_key(|k| k.date), entry.rs:56:
\* the orders it may leave.
SortedByDate(results) ==
    {[i \in 1..Len(results) |-> results[f[i]]] : f \in
        {g \in Perms(Len(results)) :
            \A i \in 2..Len(results) : results[g[i - 1]].date <= results[g[i]].date}}

\* The ascending sequence of a set of numbers (sort_unstable on names
\* that differ, sort_by on season numbers that differ).
Ascending(S) == CHOOSE p \in Orders(S) : \A i \in 2..Len(p) : p[i - 1] < p[i]

\* "Generate SeasonRankings and sort them", entry.rs:79-85
SortSeasons(ss) ==
    LET order == Ascending({ss[i].season_num : i \in 1..Len(ss)})
        sorted == [k \in 1..Len(ss) |-> ss[SeasonIndex(ss, order[k])]]
    IN  [k \in 1..Len(ss) |->
            [sorted[k] EXCEPT !.tournaments = Ascending(Range(@))]]

\* get_cup_paths and the check that follows, entry.rs:11-19
GetCupPaths ==
    /\ bpc = "start"
    /\ bpc' = IF cup_paths = 0 THEN "finished" ELSE "resolving"
    /\ UNCHANGED <<cup_paths, cups_read, all_tournament_results, teams_total_stats,
                   files, seasons, pushed>>
    /\ UNCHANGED <<fxVars, runVars>>

\* One iteration of "Run all tournaments", entry.rs:21-48, writing the
\* result file of the tournament at once.
ResolveOkWriting ==
    /\ bpc = "resolving"
    /\ cups_read < cup_paths
    /\ \E tr \in DrawnResults :
          /\ teams_total_stats' = AddTeamStats(teams_total_stats, tr, 1)
          /\ all_tournament_results' = Append(all_tournament_results, tr)
          /\ files' = files \cup {<<"results", tr.tournament_name>>}
    /\ cups_read' = cups_read + 1
    /\ UNCHANGED <<bpc, cup_paths, seasons, pushed>>
    /\ UNCHANGED <<fxVars, runVars>>

\* One iteration of "Run all tournaments", entry.rs:21-48, for a file on
\* which Tournament::run succeeds.
ResolveOk ==
    /\ bpc = "resolving"
    /\ cups_read < cup_paths
    /\ \E tr \in DrawnResults :
          /\ teams_total_stats' = AddTeamStats(teams_total_stats, tr, 1)
          /\ all_tournament_results' = Append(all_tournament_results, tr)
    /\ cups_read' = cups_read + 1
    /\ UNCHANGED <<bpc, cup_paths, files, seasons, pushed>>
    /\ UNCHANGED <<fxVars, runVars>>

\* The iteration for a file that cannot be read or parsed, entry.rs:22, or
\* on which Tournament::run panics: the unwinding ends run_tournaments and
\* drops its locals.
ResolvePanicked ==
    /\ bpc = "resolving"
    /\ cups_read < cup_paths
    /\ bpc' = "panicked"
    /\ all_tournament_results' = <<>>
    /\ teams_total_stats' = NoStats
    /\ UNCHANGED <<cup_paths, cups_read, files, seasons, pushed>>
    /\ UNCHANGED <<fxVars, runVars>>

\* The iteration for a file on which Tournament::run returns Err: the error
\* is handed to the caller (tools.rs:101-105 reports it), the batch ends
\* there and its locals are dropped.
ResolveFailed ==
    /\ bpc = "resolving"
    /\ cups_read < cup_paths
    /\ bpc' = "aborted"
    /\ all_tournament_results' = <<>>
    /\ teams_total_stats' = NoStats
    /\ UNCHANGED <<cup_paths, cups_read, files, seasons, pushed>>
    /\ UNCHANGED <<fxVars, runVars>>

\* "Generate tournament results", entry.rs:50-75: the sort by date and one
\* file per result.
WriteResults ==
    /\ bpc = "resolving"
    /\ cups_read = cup_paths
    /\ \E sorted \in SortedByDate(all_tournament_results) :
          /\ all_tournament_results' = sorted
          /\ files' = files \cup {<<"results", sorted[i].tournament_name>> :
                                     i \in 1..Len(sorted)}
    /\ bpc' = "seasons"
    /\ UNCHANGED <<cup_paths, cups_read, teams_total_stats, seasons, pushed>>
    /\ UNCHANGED <<fxVars, runVars>>

\* One iteration of the loop of Seasons::from, rankings.rs:29-31
PushNext ==
    /\ bpc = "seasons"
    /\ pushed < Len(all_tournament_results)
    /\ seasons' \in push(seasons, all_tournament_results[pushed + 1])
    /\ pushed' = pushed + 1
    /\ UNCHANGED <<bpc, cup_paths, cups_read, all_tournament_results, teams_total_stats,
                   files>>
    /\ UNCHANGED <<fxVars, runVars>>

\* The seasons sorted and rankings.toml written, entry.rs:79-88
WriteRankings ==
    /\ bpc = "seasons"
    /\ pushed = Len(all_tournament_results)
    /\ seasons' = SortSeasons(seasons)
    /\ files' = files \cup {<<"rankings", 0>>}
    /\ bpc' = "teams"
    /\ UNCHANGED <<cup_paths, cups_read, all_tournament_results, teams_total_stats, pushed>>
    /\ UNCHANGED <<fxVars, runVars>>

\* sort_unstable_by_key(|p| p.date) on the participations of one team,
\* entry.rs:92-95: the orders it may leave.
SortedParticipations(ps) ==
    {[i \in 1..Len(ps) |-> ps[f[i]]] : f \in
        {g \in Perms(Len(ps)) : \A i \in 2..Len(ps) : ps[g[i - 1]].date <= ps[g[i]].date}}

\* "Generate team stats", entry.rs:91-99
WriteTeams ==
    /\ bpc = "teams"
    /\ teams_total_stats' \in
          {st \in [DOMAIN teams_total_stats ->
                      UNION {SortedParticipations(teams_total_stats[t]) :
                                t \in DOMAIN teams_total_stats}] :
              \A t \in DOMAIN teams_total_stats :
                  st[t] \in SortedParticipations(teams_total_stats[t])}
    /\ files' = files \cup {<<"team", t>> : t \in DOMAIN teams_total_stats}
    /\ bpc' = "finished"
    /\ UNCHANGED <<cup_paths, cups_read, all_tournament_results, seasons, pushed>>
    /\ UNCHANGED <<fxVars, runVars>>

InitBatch ==
    /\ FxIdle
    /\ RunIdleAt(NoHeader, "idle")
    /\ \E n \in 0..MaxCups : BatchIdleAt("start", n)

NextBatch ==
    \/ GetCupPaths \/ ResolveOk \/ ResolvePanicked \/ ResolveFailed
    \/ WriteResults \/ PushNext \/ WriteRankings \/ WriteTeams

SpecBatch == InitBatch /\ [][NextBatch]_vars

\* ------------------------------------------------------------- the claims
RanksDense(r) ==
    /\ \A i \in 1..Len(r) : r[i].placement \in 1..Len(r)
    /\ \A k \in 1..Len(r) : Cardinality({i \in 1..Len(r) : r[i].placement = k}) = 1

\* C1: whenever Tournament::run returns Ok, the returned list has one entry
\* per team and its N entries carry the ranks 1..N, each exactly once and
\* none null, whatever coarse ranks the stages had assigned.
C1_RanksDense ==
    pc = "done" =>
        /\ Len(result) = Cardinality(DOMAIN placements)
        /\ {result[i].name : i \in 1..Len(result)} = DOMAIN placements
        /\ RanksDense(result)

\* A run that succeeded with three teams or more, two of which the stages
\* had left on the same coarse rank.
C1_Witness ==
    /\ pc = "done"
    /\ Len(result) >= 3
    /\ \E a, b \in DOMAIN placements :
          a # b /\ placements[a].placement = placements[b].placement

Returned == pc \in {"done", "failed"}

IsPow2(n) == n >= 1 /\ Pow2(FloorLog2(n)) = n

\* The round of the i-th of the n - 1 fixtures of a bracket of n teams
\* listed round by round (n a power of two).
RECURSIVE RoundOfFixture(_, _)
RoundOfFixture(i, n) ==
    IF n <= 2 \/ i <= n \div 2 THEN 1 ELSE 1 + RoundOfFixture(i - n \div 2, n \div 2)

\* ws lists a single-elimination bracket of n teams round by round: every
\* fixture has a winner, the fixtures of a round share no team, and from the
\* second round on a fixture is played by winners of the round before.
WellFormedSE(ws, n) ==
    /\ Len(ws) = n - 1
    /\ \A i \in 1..Len(ws) : winner(ws[i]).ok /\ winner(ws[i]).team # NoTeam
    /\ \A i, j \in 1..Len(ws) :
          (i < j /\ RoundOfFixture(i, n) = RoundOfFixture(j, n))
              => {ws[i].team1, ws[i].team2} \cap {ws[j].team1, ws[j].team2} = {}
    /\ \A j \in 1..Len(ws) :
          RoundOfFixture(j, n) > 1 =>
              \A x \in {ws[j].team1, ws[j].team2} :
                  \E i \in 1..Len(ws) :
                      /\ RoundOfFixture(i, n) = RoundOfFixture(j, n) - 1
                      /\ winner(ws[i]).team = x

SingleElimination ==
    /\ ~tourn.has_groups /\ ~tourn.has_losers /\ tourn.n_gf = None
    /\ IsPow2(tourn.playoff_teams)
    /\ tourn.n_winners = tourn.playoff_teams - 1
    /\ WellFormedSE(winners, tourn.playoff_teams)

\* Two teams on the same coarse rank, level on goal difference and goals
\* scored, one of them without a head_to_head value.
TieWithoutDecider ==
    \E a, b \in DOMAIN placements :
        /\ a # b
        /\ placements[a].placement = placements[b].placement
        /\ placements[a].goals_for - placements[a].goals_against
              = placements[b].goals_for - placements[b].goals_against
        /\ placements[a].goals_for = placements[b].goals_for
        /\ (head_to_head[a] = None \/ head_to_head[b] = None)

\* C2 as stated: a single-elimination bracket of N = 2^k teams whose N - 1
\* fixtures are listed round by round and all have a winner is resolved:
\* Tournament::run returns N placements with the ranks 1..N.
C2_Original ==
    (SingleElimination /\ Returned) =>
        (pc = "done" /\ Len(result) = tourn.playoff_teams /\ RanksDense(result))

\* C2 as amended: such a bracket is resolved, with N placements carrying the
\* ranks 1..N, exactly when no two teams that went out in the same round are
\* level on goal difference and goals scored without both having a
\* head_to_head value; when two are, Tournament::run returns the ordering
\* error.
C2_Amended ==
    (SingleElimination /\ Returned) =>
        IF TieWithoutDecider
        THEN pc = "failed" /\ err.kind = "SortError" /\ result = <<>>
        ELSE pc = "done" /\ Len(result) = tourn.playoff_teams /\ RanksDense(result)

\* A bracket of four teams resolved although its semi-final losers were
\* level: both had a head_to_head value.
C2_Witness ==
    /\ SingleElimination /\ pc = "done"
    /\ tourn.playoff_teams = 4
    /\ \E a \in Teams : head_to_head[a] # None

\* C3: when the scores of a fixture differ and winner() returns Ok, it
\* returns the team with the higher score and loser() the team with the
\* lower score, whatever the penalty fields hold.
C3_HigherScoreWins ==
    (fx # <<>> /\ fx[1].score1 # fx[1].score2) =>
        LET higher == IF fx[1].score1 > fx[1].score2 THEN fx[1].team1 ELSE fx[1].team2
            lower == IF fx[1].score1 > fx[1].score2 THEN fx[1].team2 ELSE fx[1].team1
        IN  /\ fxWinner.ok => fxWinner.team = higher
            /\ fxLoser.ok => fxLoser.team = lower

\* Exactly one penalty field present, or both present and equal.
BadPenalties(f) ==
    \/ (f.pen1 = None) # (f.pen2 = None)
    \/ (f.pen1 # None /\ f.pen1 = f.pen2)

PenaltyErrors == {"MissingPenalties1", "MissingPenalties2", "InvalidPenalties"}

\* C4: on a fixture with exactly one penalty field, or with two equal ones,
\* winner() and loser() return an error whatever the scores, and a stage of
\* Tournament::run that reads such a fixture makes the run return that
\* error, without a result.
C4_PenaltyErrorsPropagate ==
    /\ (fx # <<>> /\ BadPenalties(fx[1])) =>
          /\ fxWinner # Unset => (~fxWinner.ok /\ fxWinner.err \in PenaltyErrors)
          /\ fxLoser # Unset => (~fxLoser.ok /\ fxLoser.err \in PenaltyErrors)
    /\ (cur # <<>> /\ BadPenalties(cur[1])) =>
          (pc = "failed" /\ err.kind \in PenaltyErrors /\ result = <<>>)

\* A run over a definition with a losers bracket that failed on a fixture
\* with bad penalty fields whose scores differ.
C4_Witness ==
    /\ pc = "failed"
    /\ cur # <<>> /\ BadPenalties(cur[1])
    /\ cur[1].score1 # cur[1].score2
    /\ tourn.has_losers

\* The group stage has been resolved and its outcome is still held.
GroupsResolved == tourn.has_groups /\ pc \in {"playoffs", "winners", "order", "done"}

AllGroupTeams == {team_scores[t] : t \in DOMAIN team_scores}

\* The rank of x in its group by the tie-break chain.
GroupRank(x) ==
    1 + Cardinality({y \in TeamsOfGroup(team_scores, x.group) : GroupCmp(y, x) = 1})

SlotsPerGroup == tourn.playoff_teams \div Cardinality(groups_seen)

AutomaticQualifiers == {x \in AllGroupTeams : GroupRank(x) <= SlotsPerGroup}

WildcardCandidates == {x \in AllGroupTeams : GroupRank(x) = SlotsPerGroup + 1}

QualifiedWildcards == qualifying \ AutomaticQualifiers

\* C5: when a group stage with G groups and P playoff slots is resolved,
\* exactly P teams qualify; every group supplies its floor(P/G) best teams;
\* exactly P - G*floor(P/G) groups supply one more qualifier, the next-best
\* team of the group; no group supplies two; and every wildcard that
\* qualifies is ranked above every candidate that does not.
C5_Qualification ==
    GroupsResolved =>
        /\ Cardinality(qualifying) = tourn.playoff_teams
        /\ qualifying \subseteq AllGroupTeams
        /\ AutomaticQualifiers \subseteq qualifying
        /\ \A g \in groups_seen :
              /\ Cardinality(AutomaticQualifiers \cap TeamsOfGroup(team_scores, g))
                    = SlotsPerGroup
              /\ Cardinality(QualifiedWildcards \cap TeamsOfGroup(team_scores, g)) <= 1
        /\ QualifiedWildcards \subseteq WildcardCandidates
        /\ Cardinality({g \in groups_seen :
                           QualifiedWildcards \cap TeamsOfGroup(team_scores, g) # {}})
              = tourn.playoff_teams - Cardinality(groups_seen) * SlotsPerGroup
        /\ \A x \in QualifiedWildcards, c \in WildcardCandidates \ qualifying :
              GroupCmp(x, c) = 1

\* Two groups of two and three slots: one automatic qualifier per group and
\* the better of the two second-placed teams.
C5_Witness ==
    /\ GroupsResolved
    /\ Cardinality(groups_seen) = 2
    /\ tourn.playoff_teams = 3
    /\ QualifiedWildcards # {}
    /\ WildcardCandidates \ qualifying # {}

\* The finalists of a definition with a losers bracket: the winner of the
\* last winners-bracket fixture, and the winner of the last losers-bracket
\* fixture (with two teams the losers bracket is empty and the loser of the
\* winners final goes through).
WinnersFinalist == winner(winners[Len(winners)]).team

LosersFinalist ==
    IF losers # <<>> THEN winner(losers[Len(losers)]).team
    ELSE loser(winners[Len(winners)]).team

\* C6: after brackets processed without error, a grand final between the
\* two finalists is accepted only if it has two fixtures exactly when the
\* finalist from the losers bracket won the first one.
C6_GrandFinalValidated ==
    (/\ tourn.has_losers
     /\ gfs # <<>>
     /\ {gfs[1].team1, gfs[1].team2} = {WinnersFinalist, LosersFinalist})
        => ((tourn.n_gf = 2) <=> (winner(gfs[1]).team = LosersFinalist))

\* C7: when the run over a definition with a losers bracket succeeds, rank 1
\* is the winner of the last grand-final fixture and rank 2 its loser,
\* whichever teams the grand-final fixtures name.
C7_GrandFinalDecidesTopTwo ==
    (pc = "done" /\ tourn.has_losers) =>
        /\ result[1].name = winner(gfs[Len(gfs)]).team
        /\ result[2].name = loser(gfs[Len(gfs)]).team

\* The number of results of season_num that Seasons::from has pushed.
TournamentsPushed(season_num) ==
    Cardinality({i \in 1..pushed : all_tournament_results[i].season_num = season_num})

\* C8: after pushes in ascending date order, every team listed in a season
\* has as many ranking_points as ranks, one of each per tournament of the
\* season pushed so far, also a team that missed a later tournament.
C8_ParallelArrays ==
    \A k \in 1..Len(seasons) :
        \A i \in 1..Len(seasons[k].rankings) :
            /\ Len(seasons[k].rankings[i].ranking_points)
                  = TournamentsPushed(seasons[k].season_num)
            /\ Len(seasons[k].rankings[i].ranks)
                  = TournamentsPushed(seasons[k].season_num)

\* C9: Seasons::from pushes only once every file has been resolved and the
\* results are sorted: the results it has pushed, and those it will push,
\* are in ascending date order, in whatever order the files were resolved.
C9_AggregationInDateOrder ==
    (pushed > 0 \/ seasons # <<>>) =>
        /\ cups_read = cup_paths
        /\ bpc \notin {"start", "resolving"}
        /\ \A i, j \in 1..Len(all_tournament_results) :
              i < j => all_tournament_results[i].date <= all_tournament_results[j].date

\* Two results pushed, of files resolved latest first: a team's
\* participations, appended as the files were resolved, still show it.
C9_Witness ==
    /\ bpc = "seasons"
    /\ pushed = 2
    /\ \E t \in DOMAIN teams_total_stats :
          /\ Len(teams_total_stats[t]) = 2
          /\ teams_total_stats[t][1].date > teams_total_stats[t][2].date

IsDraw(f) == f.score1 = f.score2 /\ f.pen1 = None /\ f.pen2 = None

\* The step reads the next fixture of the winners bracket, of the losers
\* bracket or of the grand final.
ReadsPlayoffFixture ==
    \/ (pc = "winners" /\ Len(winners) < tourn.n_winners)
    \/ (pc = "losersloop" /\ Len(losers) < tourn.n_losers)
    \/ (pc = "losersloop" /\ Len(losers) = tourn.n_losers /\ tourn.n_gf \in 1..2
            /\ pc' # "panicked")
    \/ pc = "gfloop"

\* The step reads the next fixture of the group stage.
ReadsGroupFixture == pc = "groups" /\ Len(groups) < tourn.n_groups

DrawsOf(pl, t) == IF t \in DOMAIN pl THEN pl[t].draws ELSE 0

ResolvesGroups == pc = "groups" /\ Len(groups) = tourn.n_groups

\* The tie-break chain of a group between the GroupTeams x and y, the
\* decider values h filled in: x is ranked above y.
ChainAbove(x, y, h) ==
    \/ x.points > y.points
    \/ /\ x.points = y.points
       /\ x.goals_for - x.goals_against > y.goals_for - y.goals_against
    \/ /\ x.points = y.points
       /\ x.goals_for - x.goals_against = y.goals_for - y.goals_against
       /\ x.goals_for > y.goals_for
    \/ /\ x.points = y.points
       /\ x.goals_for - x.goals_against = y.goals_for - y.goals_against
       /\ x.goals_for = y.goals_for
       /\ h[x.team] # None /\ h[y.team] # None
       /\ h[x.team] > h[y.team]

\* The pairs of teams of one group that the chain leaves equal.
ChainTies(ts, h) ==
    {{a, b} : a \in DOMAIN ts, b \in DOMAIN ts} \cap
    {pr \in SUBSET DOMAIN ts :
        \E a, b \in pr :
            /\ pr = {a, b} /\ a # b
            /\ ts[a].group = ts[b].group
            /\ ~ChainAbove(ts[a], ts[b], h) /\ ~ChainAbove(ts[b], ts[a], h)}

\* A resolved group stage ranked every group by the chain: of two teams of
\* a group, one qualifying and one not, the qualifier is above; of two
\* eliminated, the one above holds the better rank.
RankedByChain ==
    \A a, b \in DOMAIN team_scores :
        (a # b /\ team_scores[a].group = team_scores[b].group
            /\ ChainAbove(team_scores[a], team_scores[b], head_to_head'))
        => /\ placements'[b].placement = None => placements'[a].placement = None
           /\ placements'[a].placement # None =>
                  placements'[a].placement < placements'[b].placement

LevelBeforeDecider(a, b) ==
    /\ a # b
    /\ placements[a].placement = placements[b].placement
    /\ placements[a].goals_for - placements[a].goals_against
          = placements[b].goals_for - placements[b].goals_against
    /\ placements[a].goals_for = placements[b].goals_for
    /\ tourn.has_losers =>
          ~\E i \in 1..Len(winners) : {winners[i].team1, winners[i].team2} = {a, b}
    /\ tourn.has_groups =>
          /\ a \in DOMAIN team_scores /\ b \in DOMAIN team_scores
          /\ team_scores[a].points = team_scores[b].points
          /\ team_scores[a].goals_for - team_scores[a].goals_against
                = team_scores[b].goals_for - team_scores[b].goals_against
          /\ team_scores[a].goals_for = team_scores[b].goals_for

\* C13: Tournament::run returns no result when two teams are equal on the
\* coarse rank, the goal difference, the goals scored and every earlier
\* tie-break that applies, and one of them has no head_to_head value.
C13_MissingDeciderFails ==
    pc = "done" =>
        \A a, b \in DOMAIN placements :
            LevelBeforeDecider(a, b) =>
                (head_to_head[a] # None /\ head_to_head[b] # None)

\* The teams that qualified from the group stage, and those it eliminated.
QualifiedNames == {q.team : q \in qualifying}

EliminatedNames == DOMAIN team_scores \ QualifiedNames

RankIn(r, t) == CHOOSE i \in 1..Len(r) : r[i].name = t

\* C14: when a group stage with N teams and P playoff slots is resolved,
\* the N - P teams that do not qualify hold the ranks P+1..N, each once,
\* the worst of them by the tie-break chain holding N; and in the result of
\* the tournament every team the group stage eliminated is ranked below
\* every team that qualified.
C14_EliminatedBelowPlayoffs ==
    /\ (tourn.has_groups /\ pc = "playoffs") =>
          LET N == Cardinality(DOMAIN team_scores)
              P == tourn.playoff_teams
          IN  /\ Cardinality(EliminatedNames) = N - P
              /\ {placements[t].placement : t \in EliminatedNames} = (P + 1)..N
              /\ \A t \in QualifiedNames : placements[t].placement = None
              /\ \A t \in EliminatedNames :
                    placements[t].placement = N =>
                        \A u \in EliminatedNames \ {t} :
                            GroupCmp(team_scores[u], team_scores[t]) = 1
    /\ (tourn.has_groups /\ pc = "done") =>
          \A e \in EliminatedNames, q \in QualifiedNames :
              RankIn(result, e) > RankIn(result, q)


\* The cumulative counters of a Team, and those of a MatchupHistory.
TeamTotals ==
    {"goals_against", "goals_for", "penalties_played", "penalties_goals_against",
     "penalties_goals_for", "wins", "draws", "losses"}

MatchupTotals == {"wins", "draws", "losses", "goals_for", "goals_against"}

\* What a record holds against an opponent, over all its entries.
RECURSIVE MatchupTotal(_, _, _, _)
MatchupTotal(matchups, opponent, field, k) ==
    IF k > Len(matchups) THEN 0
    ELSE (IF matchups[k].opponent_name = opponent THEN matchups[k][field] ELSE 0)
         + MatchupTotal(matchups, opponent, field, k + 1)

RECURSIVE SumOfTotal(_, _, _)
SumOfTotal(recs, field, k) ==
    IF k > Len(recs) THEN 0 ELSE recs[k][field] + SumOfTotal(recs, field, k + 1)

RECURSIVE SumOfMatchupTotal(_, _, _, _)
SumOfMatchupTotal(recs, opponent, field, k) ==
    IF k > Len(recs) THEN 0
    ELSE MatchupTotal(recs[k].matchups, opponent, field, 1)
         + SumOfMatchupTotal(recs, opponent, field, k + 1)

AllMerged == lifetime # <<>> /\ DOMAIN pending \subseteq {0}

MergesRecord == DOMAIN pending' # DOMAIN pending /\ ~(0 \in DOMAIN pending' /\ 0 \notin DOMAIN pending)

MergedRecord == pending[CHOOSE i \in DOMAIN pending : i \notin DOMAIN pending']

MergedInto ==
    IF lifetime' # lifetime THEN <<lifetime[1], lifetime'[1]>>
    ELSE LET i == CHOOSE k \in DOMAIN pending' : pending'[k] # pending[k]
         IN  <<pending[i], pending'[i]>>

\* The step merged a record into its own copy with the greatest fixtures
\* reset.
MergesResetCopy == 0 \in DOMAIN pending' /\ 0 \notin DOMAIN pending

\* What the comparison leaves of self's greatest fixture and other's.
GreaterOf(greatest_self, greatest_other) ==
    IF greatest_other = <<>> THEN greatest_self
    ELSE IF greatest_self = <<>> THEN greatest_other
    ELSE IF IsGreatest(greatest_self[1], greatest_other[1]) THEN greatest_other
    ELSE greatest_self

\* C16: after a.add(b), a's greatest win and greatest loss are b's when
\* b has one and a had none or b's is greater than a's under the
\* greatest-fixture comparison, and a's own otherwise; and adding a
\* record to its own copy with the greatest fixtures reset gives the
\* record's greatest win and greatest loss again.
C16_GreatestAdoptedByComparison ==
    [][/\ MergesRecord =>
            /\ MergedInto[2].greatest_win
                  = GreaterOf(MergedInto[1].greatest_win, MergedRecord.greatest_win)
            /\ MergedInto[2].greatest_loss
                  = GreaterOf(MergedInto[1].greatest_loss, MergedRecord.greatest_loss)
       /\ MergesResetCopy =>
            \E i \in DOMAIN pending :
                /\ pending'[0].wins = 2 * pending[i].wins
                /\ pending'[0].participations = pending[i].participations \o pending[i].participations
                /\ pending'[0].greatest_win = pending[i].greatest_win
                /\ pending'[0].greatest_loss = pending[i].greatest_loss]_vars

\* A merged record has kept its own greatest win against a smaller one,
\* has taken a greater loss from another record, and a record holding
\* both a greatest win and a greatest loss was added to its reset copy.
C16_Witness ==
    /\ 0 \in DOMAIN pending
    /\ pending[0].greatest_win # <<>>
    /\ pending[0].greatest_loss # <<>>
    /\ Len(pending[0].participations) = 4
    /\ \E k \in DOMAIN team_records :
          /\ team_records[k].greatest_win # <<>>
          /\ pending[0].greatest_win # team_records[k].greatest_win
          /\ IsGreatest(team_records[k].greatest_win[1], pending[0].greatest_win[1])
    /\ \E k \in DOMAIN team_records :
          /\ team_records[k].greatest_loss # <<>>
          /\ pending[0].greatest_loss # team_records[k].greatest_loss
          /\ IsGreatest(team_records[k].greatest_loss[1], pending[0].greatest_loss[1])


\* The step is an iteration of the loop of winners_bracket that went
\* through, and the fixture it read.
ReadsWinnersFixture == pc = "winners" /\ Len(winners') = Len(winners) + 1

LastWinnersFixture == winners'[Len(winners')]

IsPowerOfTwo(n) == \E k \in 0..8 : n = Pow2(k)

LargestPowerOfTwoBelow(n) == CHOOSE p \in 1..n : IsPowerOfTwo(p) /\ p < n /\ 2 * p >= n

FirstStageFixtures(T) ==
    IF IsPowerOfTwo(T) THEN T \div 2
    ELSE T - (CHOOSE p \in 1..T : IsPowerOfTwo(p) /\ p <= T /\ 2 * p > T)

\* What C17 and its amendment share: the first stage has T - 2^floor(log2 T)
\* fixtures (T/2 for a power of two) and starts from teams_left = T; both
\* teams of a fixture get teams_left as placement; within a stage
\* teams_left stays, and next_teams_left says what it becomes when the
\* quota of the stage is used up, the next quota being half of it.
WinnersStages(next_teams_left(_)) ==
    /\ (winners = <<>> /\ winners' # <<>>) =>
          /\ stage.teams_left = tourn.playoff_teams
          /\ stage.fixtures_in_stage = FirstStageFixtures(tourn.playoff_teams)
    /\ placements'[LastWinnersFixture.team1].placement = stage.teams_left
    /\ placements'[LastWinnersFixture.team2].placement = stage.teams_left
    /\ stage.fixtures_in_stage > 1 =>
          /\ stage'.teams_left = stage.teams_left
          /\ stage'.fixtures_in_stage = stage.fixtures_in_stage - 1
    /\ (stage.fixtures_in_stage = 1 /\ stage.teams_left > 2) =>
          /\ stage'.teams_left = next_teams_left(stage.teams_left)
          /\ stage'.fixtures_in_stage = stage'.teams_left \div 2

HalfOf(n) == IF n % 2 = 0 THEN n \div 2 ELSE 0

\* C17 as stated: for T >= 2 the first stage of the winners bracket has
\* T - 2^floor(log2 T) fixtures (T/2 for a power of two), both teams of
\* a fixture get teams_left, and whenever the quota of a stage is used
\* up teams_left becomes half of what it was, until it is 2.
C17_Original == [][ReadsWinnersFixture => WinnersStages(HalfOf)]_vars

\* C17 amended: as above, but when the quota of a stage is used up
\* teams_left becomes the largest power of two below it, which is half of
\* it except at the end of the first stage of a T that is no power of two.
C17_Amended == [][ReadsWinnersFixture => WinnersStages(LargestPowerOfTwoBelow)]_vars

\* Three teams: after the one fixture of the first stage the final was
\* played for teams_left = 2.
C17_Witness ==
    /\ pc = "winners"
    /\ tourn.playoff_teams = 3
    /\ Len(winners) = 2
    /\ placements[winners[1].team1].placement = 3
    /\ placements[winners[2].team1].placement = 2
    /\ placements[winners[2].team2].placement = 2


\* The step is an iteration of the loop of losers_bracket that went
\* through, and the fixture it read.
ReadsLosersFixture == pc = "losersloop" /\ Len(losers') = Len(losers) + 1

LastLosersFixture == losers'[Len(losers')]

\* The numbers of teams at which a stage of the losers bracket starts:
\* 2, 3, 4, 6, 8, 12, 16, 24, ...
StageSizes == {n \in 2..255 : \E k \in 0..7 : n = Pow2(k + 1) \/ n = 3 * Pow2(k)}

\* With the fixture read, a stage of the losers bracket is over: one
\* team is out per fixture, and the teams still in make up a stage size.
AtStageBoundary == (tourn.playoff_teams - Len(losers')) \in StageSizes

\* What C18 and its amendment share: the loop starts from teams_left = T,
\* both teams of a fixture get teams_left as placement, and teams_left
\* changes at a stage boundary only, where it drops by `dropped`.
LosersStages(dropped) ==
    /\ losers = <<>> => stage.teams_left = tourn.playoff_teams
    /\ placements'[LastLosersFixture.team1].placement = stage.teams_left
    /\ placements'[LastLosersFixture.team2].placement = stage.teams_left
    /\ stage'.teams_left =
          IF AtStageBoundary THEN stage.teams_left - dropped ELSE stage.teams_left

\* The fixtures read since teams_left changed last, the one of this step
\* included.
FixturesOfStage ==
    Cardinality({k \in DOMAIN losers' :
        tourn.playoff_teams - (k - 1) <= stage.teams_left})

\* C18 as stated: for every T, both teams of a losers-bracket fixture
\* get the current teams_left as coarse rank, and at every stage
\* boundary teams_left drops by exactly one.
C18_Original == [][ReadsLosersFixture => LosersStages(1)]_vars

\* C18 amended: as above, but at a stage boundary teams_left drops by
\* the number of fixtures of the stage that ended, one team per fixture.
C18_Amended == [][ReadsLosersFixture => LosersStages(FixturesOfStage)]_vars

\* Six teams: the two fixtures of the first stage were ranked 6, and the
\* stage of four teams has begun.
C18_Witness ==
    /\ pc = "losersloop"
    /\ tourn.playoff_teams = 6
    /\ Len(losers) = 2
    /\ stage.teams_left = 4
    /\ placements[losers[1].team2].placement = 6
    /\ placements[losers[2].team2].placement = 6


\* C19: when a definition without a grand final has run through, the
\* team ranked 1 in the result is the winner of the last fixture of the
\* winners bracket and the team ranked 2 is the loser of that fixture,
\* with or without a group stage.
C19_LastWinnersFixtureRanksFirst ==
    (pc = "done" /\ tourn.n_gf = None) =>
        /\ Len(result) >= 2
        /\ result[1].name = winner(winners[Len(winners)]).team
        /\ result[2].name = loser(winners[Len(winners)]).team


\* The number of fixtures of a list that may be absent.
CountOf(n) == IF n = None THEN 0 ELSE n

\* The lists of the definition do not have the lengths playoff_teams
\* asks for.
WrongCounts ==
    \/ tourn.n_winners # tourn.playoff_teams - 1
    \/ (tourn.has_losers /\ CountOf(tourn.n_losers) # tourn.playoff_teams - 2)
    \/ (tourn.has_losers /\ CountOf(tourn.n_gf) \notin {1, 2})

\* C20: a run of a definition whose winners bracket has not
\* playoff_teams - 1 fixtures, or which has a losers bracket that has not
\* playoff_teams - 2 fixtures or a grand final that has not 1 or 2
\* fixtures, ends with an error and without placements, whatever
\* playoff_teams is, 0 and 1 included: it neither returns a result nor
\* panics.
C20_WrongCountsFail ==
    (tourn # NoHeader /\ WrongCounts) =>
        /\ pc \notin {"done", "panicked"}
        /\ result = <<>>


\* The greatest fixtures of a team record: a win the team played and won,
\* a loss the team played and lost.
GreatestAreWinAndLoss(team) ==
    /\ team.greatest_win # <<>> =>
          /\ team.name \in {team.greatest_win[1].team1, team.greatest_win[1].team2}
          /\ winner(team.greatest_win[1]).team = team.name
    /\ team.greatest_loss # <<>> =>
          /\ team.name \in {team.greatest_loss[1].team1, team.greatest_loss[1].team2}
          /\ loser(team.greatest_loss[1]).team = team.name

\* C21: whatever fixtures were applied to the placements and whatever
\* records were merged with Team::add, the greatest win of a team, when
\* set, is a fixture the team played and won, and its greatest loss one
\* it played and lost; a drawn group fixture is neither.
C21_GreatestIsWonOrLost ==
    /\ \A t \in DOMAIN placements : GreatestAreWinAndLoss(placements[t])
    /\ \A i \in DOMAIN pending : GreatestAreWinAndLoss(pending[i])
    /\ \A i \in DOMAIN lifetime : GreatestAreWinAndLoss(lifetime[i])


\* The order the greatest fixtures are to follow: the absolute goal
\* difference, then the goals of both sides, then, when these are equal
\* and both fixtures had a shoot-out, the difference of the penalty goals
\* and their number.
GreaterFixture(current, candidate) ==
    LET gd(f) == AbsDiff(f.score1, f.score2)
        goals(f) == f.score1 + f.score2
        shootout(f) == f.pen1 # None /\ f.pen2 # None
        pd(f) == AbsDiff(f.pen1, f.pen2)
        pens(f) == f.pen1 + f.pen2
    IN  \/ gd(candidate) > gd(current)
        \/ (gd(candidate) = gd(current) /\ goals(candidate) > goals(current))
        \/ /\ gd(candidate) = gd(current)
           /\ goals(candidate) = goals(current)
           /\ shootout(candidate) /\ shootout(current)
           /\ (pd(candidate) > pd(current)
               \/ (pd(candidate) = pd(current) /\ pens(candidate) > pens(current)))

\* The step is update_team for team 1 with the fixture fx'.
UpdatesTeam == team_records = <<>> /\ lifetime # <<>> /\ lifetime' # lifetime

\* C22: a fixture the team won replaces its greatest win, and one it lost
\* its greatest loss, if and only if it is greater than the current one
\* in the order of goal difference and total goals, or, these being
\* equal and both fixtures having had a shoot-out, of penalty difference
\* and penalty total; with a smaller goal difference, or the same and
\* fewer goals, it never does.
C22_ReplacedIffGreater ==
    [][UpdatesTeam =>
        /\ (lifetime[1].greatest_win # <<>> /\ winner(fx'[1]).team = 1) =>
              ((lifetime'[1].greatest_win # lifetime[1].greatest_win)
                  <=> (/\ fx'[1] # lifetime[1].greatest_win[1]
                       /\ GreaterFixture(lifetime[1].greatest_win[1], fx'[1])))
        /\ (lifetime[1].greatest_loss # <<>> /\ loser(fx'[1]).team = 1) =>
              ((lifetime'[1].greatest_loss # lifetime[1].greatest_loss)
                  <=> (/\ fx'[1] # lifetime[1].greatest_loss[1]
                       /\ GreaterFixture(lifetime[1].greatest_loss[1], fx'[1])))]_vars


\* The step is an iteration of the loop of GroupStage::run that went
\* through, and the fixture it read.
CountsGroupFixture == pc = "groups" /\ Len(groups') = Len(groups) + 1

LastGroupFixture == groups'[Len(groups')]

\* What the step added to a counter of team t in the placements, and the
\* group points it gave the team.
Recorded(t, field) ==
    placements'[t][field] - (IF t \in DOMAIN placements THEN placements[t][field] ELSE 0)

PointsAwarded(t) ==
    team_scores'[t].points - (IF t \in DOMAIN team_scores THEN team_scores[t].points ELSE 0)

\* C23: for every group fixture, what the placements record for its two
\* teams agrees with the group points: a win with 3 points, a draw with
\* 1, a loss with 0; and a fixture with equal scores is a draw for both
\* teams, with 1 point each, whether or not it has penalty fields.
C23_RecordAgreesWithPoints ==
    [][CountsGroupFixture =>
        \A t \in {LastGroupFixture.team1, LastGroupFixture.team2} :
            /\ Recorded(t, "wins") + Recorded(t, "draws") + Recorded(t, "losses") = 1
            /\ Recorded(t, "wins") = 1 <=> PointsAwarded(t) = 3
            /\ Recorded(t, "draws") = 1 <=> PointsAwarded(t) = 1
            /\ Recorded(t, "losses") = 1 <=> PointsAwarded(t) = 0
            /\ LastGroupFixture.score1 = LastGroupFixture.score2 =>
                  Recorded(t, "draws") = 1]_vars


RECURSIVE SumOverMatchups(_, _, _)
SumOverMatchups(matchups, field, k) ==
    IF k > Len(matchups) THEN 0
    ELSE matchups[k][field] + SumOverMatchups(matchups, field, k + 1)

\* A team record has one matchup record per opponent at most, and each of
\* its counters is the sum of that counter over the matchup records.
MatchupsAddUp(team) ==
    /\ \A i, j \in DOMAIN team.matchups :
          team.matchups[i].opponent_name = team.matchups[j].opponent_name => i = j
    /\ \A field \in TeamTotals :
          team[field] = SumOverMatchups(team.matchups, field, 1)

\* C24: after any fixtures of the group stage, the winners bracket, the
\* losers bracket and the grand final that were applied, the placement
\* of every team has at most one matchup record per opponent, and its
\* goals, penalty counters, wins, draws and losses are the sums over its
\* matchup records; so has every entry of a returned result.
C24_MatchupsSumToTotals ==
    /\ \A t \in DOMAIN placements : MatchupsAddUp(placements[t])
    /\ \A i \in DOMAIN result : MatchupsAddUp(result[i])

\* A result in which a team met one opponent twice and another one once.
C24_Witness ==
    /\ pc = "done"
    /\ \E i \in DOMAIN result :
          /\ Len(result[i].matchups) = 2
          /\ result[i].wins + result[i].draws + result[i].losses = 3


\* C25: a run returns a result only if every team of the placements was
\* given a rank before the final ordering, by the group stage that
\* eliminated it or by a playoff fixture it played; no team without a
\* rank is in a result, let alone ahead of a team that played.
C25_ResultOnlyOfRankedTeams ==
    pc = "done" =>
        /\ \A t \in DOMAIN placements : placements[t].placement # None
        /\ \A i, j \in DOMAIN result :
              (placements[result[i].name].placement = None
               /\ placements[result[j].name].placement # None) => i > j


\* The placements the final ordering sorted: with the head_to_head values
\* filled in.
SortedPlacements == FillHeadToHead(placements, head_to_head)

\* C26: the order of a returned result follows from the definition alone:
\* no two teams compare as equal over the whole chain of the final
\* ordering without the run failing, also when both carry the same
\* head_to_head value, and the result is the only order the sort can end
\* in, whatever order the map hands the teams over in.
C26_OrderDetermined ==
    pc = "done" =>
        /\ \A a, b \in DOMAIN placements :
              a # b => FinalCmp(SortedPlacements[a], SortedPlacements[b],
                                tourn, winners, qualifying).ord # 0
        /\ Cardinality(SortedOrders(SortedPlacements, tourn, winners, qualifying)) = 1


\* The names of the results of season_num in the order in which Seasons::from
\* pushed them, from the k-th result on.
RECURSIVE NamesPushed(_, _)
NamesPushed(season_num, k) ==
    IF k > pushed THEN <<>>
    ELSE IF all_tournament_results[k].season_num = season_num
         THEN <<all_tournament_results[k].tournament_name>> \o NamesPushed(season_num, k + 1)
         ELSE NamesPushed(season_num, k + 1)

\* C27: in the season rankings written by run_tournaments, the i-th name of
\* a season's tournaments list is the tournament whose result was the i-th
\* pushed for that season (the one behind the i-th entry of ranking_points
\* and ranks), whatever the tournaments are called.
C27_TournamentsInPushOrder ==
    (bpc \in {"teams", "finished"} /\ <<"rankings", 0>> \in files) =>
        \A k \in 1..Len(seasons) :
            seasons[k].tournaments = NamesPushed(seasons[k].season_num, 1)


\* The number of teams team_scores holds for group g.
GroupSize(g) == Cardinality({t \in DOMAIN team_scores : team_scores[t].group = g})

\* The playoff slots are an exact multiple of the number of groups, every
\* group has at least playoff_teams / groups teams and one has exactly
\* as many.
GroupFullyQualifies ==
    /\ groups_seen # {}
    /\ tourn.playoff_teams % Cardinality(groups_seen) = 0
    /\ \A g \in groups_seen :
          GroupSize(g) >= tourn.playoff_teams \div Cardinality(groups_seen)
    /\ \E g \in groups_seen :
          GroupSize(g) = tourn.playoff_teams \div Cardinality(groups_seen)

\* C28: when no wildcard is needed and some group has exactly
\* playoff_teams / groups teams, all of them qualifying, the group stage
\* resolves (no teams being level over the chain): the group contributes no
\* eliminated team and the playoffs begin.
C28_FullGroupResolves ==
    [][(ResolvesGroups /\ GroupFullyQualifies /\ pc' # "panicked"
        /\ ChainTies(team_scores, head_to_head') = {})
          => pc' = "playoffs"
      ]_vars


\* The fixtures the quotas of winners_bracket still allow: what is left of
\* the stage under way and the 2^(stages_left - 1) - 1 fixtures of the
\* stages after it.
RemainingQuota(st) ==
    st.fixtures_in_stage + (IF st.stages_left >= 1 THEN Pow2(st.stages_left - 1) - 1 ELSE 0)

\* C29: in a winners bracket of T >= 2 teams and T - 1 fixtures the quotas
\* of the stages sum to T - 1: the fixture counter never falls below 0 and
\* is at least 1 while a fixture is left to read, the last fixture is read
\* with teams_left = 2, and no fixture gives a coarse rank below 2.
C29_QuotasSumToFixtures ==
    (pc = "winners" /\ tourn.playoff_teams >= 2) =>
        /\ Len(winners) + RemainingQuota(stage) = tourn.playoff_teams - 1
        /\ stage.fixtures_in_stage >= 0
        /\ Len(winners) < tourn.n_winners =>
              stage.fixtures_in_stage >= 1 /\ stage.teams_left >= 2
        /\ Len(winners) = tourn.n_winners - 1 => stage.teams_left = 2
        /\ \A i \in 1..Len(winners) :
              /\ placements[winners[i].team1].placement >= 2
              /\ placements[winners[i].team2].placement >= 2

\* Four teams, all three fixtures read: the quotas 2 and 1 are used up and
\* the teams of the final hold the coarse rank 2.
C29_Witness ==
    /\ pc = "winners"
    /\ tourn.playoff_teams = 4
    /\ Len(winners) = 3
    /\ stage.fixtures_in_stage = 0
    /\ placements[winners[3].team1].placement = 2
    /\ placements[winners[3].team2].placement = 2


\* The loop of losers_bracket is under way or over, in a bracket of at
\* least three teams.
InLosersLoop == pc = "losersloop" /\ tourn.playoff_teams >= 3

\* The coarse ranks of the losers bracket: the last fixture is read with
\* teams_left = 3 and every earlier one with teams_left >= 4, and once the
\* last one is read its two teams hold the rank 3.
LosersRanksEndAtThree ==
    InLosersLoop =>
        /\ Len(losers) < tourn.n_losers - 1 => stage.teams_left >= 4
        /\ Len(losers) = tourn.n_losers - 1 => stage.teams_left = 3
        /\ Len(losers) = tourn.n_losers =>
              /\ placements[losers[Len(losers)].team1].placement = 3
              /\ placements[losers[Len(losers)].team2].placement = 3

\* C30: in a losers bracket of T >= 3 teams and T - 2 fixtures the last
\* fixture gives the coarse rank 3 to both of its teams and every earlier
\* one a rank of at least 4, so that on entering the grand final the
\* finalist from the losers bracket holds placement 3 and the finalist from
\* the winners bracket does not.
C30_OnlyLosersFinalistHoldsThree ==
    /\ LosersRanksEndAtThree
    /\ (InLosersLoop /\ Len(losers) = tourn.n_losers) =>
          /\ placements[LosersFinalist].placement = 3
          /\ WinnersFinalist # LosersFinalist =>
                placements[WinnersFinalist].placement # 3

=============================================================================
